---- MODULE Spec2Model ----
(***************************************************************************)
(* Workspace-edit application of lsp_client (python-sdk).                  *)
(*                                                                         *)
(*   SpecEdits : the text edit engine apply_text_edits as a pure function  *)
(*               applied to bounded contents and edit lists.               *)
(*   Spec      : the workspace/applyEdit responder and the workspace edit  *)
(*               applicator over a file system and the document state      *)
(*               store, one request handled at a time.                     *)
(*                                                                         *)
(* Strings are sequences of one-character strings, positions are the       *)
(* 0-based (line, character) pairs of LSP, lists are 1-based sequences.    *)
(***************************************************************************)
EXTENDS Integers, Sequences, FiniteSets, TLC

VARIABLES
    content,        \* apply_text_edits: the `content` argument
    edits,          \* apply_text_edits: the `edits` argument
    result,         \* apply_text_edits: the returned string (NoResult before)
    te_pc,          \* "input" before the call, "done" after it
    files,          \* the file system: path -> content, for the files that exist
    document_state, \* DocumentStateManager: uri -> DocumentState, for registered uris
    req,            \* the ApplyWorkspaceEditRequest being handled (or handled last)
    pc,             \* "idle", "read" (awaiting read_file), "write" (awaiting
                    \* write_file), "responded" (respond_apply_edit has ended)
    idx,            \* 1-based index of the entry the applicator is at
    new_content,    \* _apply_text_document_edit / _apply_changes: new_content
    outcome,        \* how respond_apply_edit ended: a response or an exception
    raised,         \* the exception raised inside apply_workspace_edit, if any
    io_log,         \* the collaborator calls made for this request, in order
    pre,            \* files and document_state when the current entry was begun
    start,          \* files and document_state when the request was received
    history,        \* the requests handled so far, oldest first (kept by the
                    \* chain specification only)
    store_call,     \* the last call made on the DocumentStateManager from
                    \* outside the applicator, with its result
    ref_count,      \* client._buffer._ref_count: uri -> number of open_files
                    \* contexts holding it
    open_contexts,  \* the open_files contexts: not yet entered, active or
                    \* exited, with the uris each one names
    open_raised,    \* the exception that escaped from open_files, if any
    fo,             \* the *_files_with_server call in progress: its
                    \* arguments, its position and the steps it has made
    tasks,          \* the respond_apply_edit calls running at the same time:
                    \* task -> its edit, its position, its new_content and
                    \* how it ended
    cand,           \* the DefaultServers.iter_candidate generator: its
                    \* argument, where it is suspended, what it has yielded
    srv             \* Server._dispatch and its surroundings: the packages on
                    \* the wire, the handle tasks, the response table, what
                    \* was forwarded to the client and sent to the server

teVars == <<content, edits, result, te_pc>>

appVars == <<files, document_state, req, pc, idx, new_content, outcome, raised,
             io_log, pre, start, history, store_call>>

clientVars == <<ref_count, open_contexts, open_raised, fo, tasks, cand, srv>>

vars == <<content, edits, result, te_pc, files, document_state, req, pc, idx,
          new_content, outcome, raised, io_log, pre, start, history, store_call,
          ref_count, open_contexts, open_raised, fo, tasks, cand, srv>>

----------------------------------------------------------------------------
(* Bounds of the text-engine inputs *)

MaxLen == 4         \* longest content, in characters
MaxLine == 1        \* largest line number of an edit position
MaxChar == 2        \* largest character number of an edit position
MaxEdits == 2       \* longest edit list

NoResult == <<"<none>">>

Min(a, b) == IF a <= b THEN a ELSE b

----------------------------------------------------------------------------
(* Python string and list helpers *)

\* s[:k] of Python for k >= 0
Take(s, k) == SubSeq(s, 1, Min(k, Len(s)))

\* s[k:] of Python for k >= 0
Drop(s, k) == SubSeq(s, Min(k, Len(s)) + 1, Len(s))

\* the line boundaries str.splitlines recognises among the modelled characters
IsLineBreak(ch) == ch \in {"\n", "\r"}

RECURSIVE SplitFrom(_, _, _)
\* scan s from index i with the unfinished line cur; "\r\n" ends one line
SplitFrom(s, i, cur) ==
    IF i > Len(s)
    THEN IF cur = <<>> THEN <<>> ELSE <<cur>>
    ELSE IF s[i] = "\r" /\ i < Len(s) /\ s[i + 1] = "\n"
         THEN <<cur \o <<"\r", "\n">>>> \o SplitFrom(s, i + 2, <<>>)
         ELSE IF IsLineBreak(s[i])
              THEN <<Append(cur, s[i])>> \o SplitFrom(s, i + 1, <<>>)
              ELSE SplitFrom(s, i + 1, Append(cur, s[i]))

\* content.splitlines(keepends=True)
SplitLines(s) == SplitFrom(s, 1, <<>>)

RECURSIVE Join(_)
\* "".join(lines)
Join(lines) == IF lines = <<>> THEN <<>> ELSE Head(lines) \o Join(Tail(lines))

----------------------------------------------------------------------------
(* apply_text_edits *)

\* new_text of a TextEdit / AnnotatedTextEdit, snippet.value of a SnippetTextEdit
_get_edit_text(edit) ==
    IF edit.kind = "SnippetTextEdit" THEN edit.snippet ELSE edit.new_text

\* the sort key (e.range.start.line, e.range.start.character), compared as tuples
KeyLess(e, f) ==
    \/ e.range.start.line < f.range.start.line
    \/ /\ e.range.start.line = f.range.start.line
       /\ e.range.start.character < f.range.start.character

RECURSIVE InsertDesc(_, _)
\* place e after every element whose key is >= its key (stable, descending)
InsertDesc(sorted, e) ==
    IF sorted = <<>> THEN <<e>>
    ELSE IF KeyLess(Head(sorted), e)
         THEN <<e>> \o sorted
         ELSE <<Head(sorted)>> \o InsertDesc(Tail(sorted), e)

RECURSIVE SortDescFrom(_, _, _)
SortDescFrom(es, i, acc) ==
    IF i > Len(es) THEN acc ELSE SortDescFrom(es, i + 1, InsertDesc(acc, es[i]))

\* sorted(edits, key=..., reverse=True): a stable sort, so edits with equal
\* start positions keep their input order
sorted_edits(es) == SortDescFrom(es, 1, <<>>)

RECURSIVE PadLines_Empty(_, _)
\* the padding done with empty lines instead of "\n" lines
PadLines_Empty(lines, start_line) ==
    IF Len(lines) <= start_line
    THEN PadLines_Empty(Append(lines, <<>>), start_line)
    ELSE lines

RECURSIVE PadLines(_, _)
\* while len(lines) <= start_line: lines.append("\n")
PadLines(lines, start_line) ==
    IF Len(lines) <= start_line
    THEN PadLines(Append(lines, <<"\n">>), start_line)
    ELSE lines

\* v inserted before line i instead of assigned to it
SetLine_Insert(lines, i, v) ==
    SubSeq(lines, 1, i) \o <<v>> \o SubSeq(lines, i + 1, Len(lines))

\* lines[i] = v for the 0-based index i
SetLine(lines, i, v) == [lines EXCEPT ![i + 1] = v]

\* del lines[a:b - 1]: the last line of the slice is kept
DelLines_KeepsEnd(lines, a, b) ==
    IF a >= b - 1 THEN lines
    ELSE SubSeq(lines, 1, Min(a, Len(lines))) \o
         SubSeq(lines, Min(b - 1, Len(lines)) + 1, Len(lines))

\* del lines[a:b] for 0-based a, b
DelLines(lines, a, b) ==
    IF a >= b THEN lines
    ELSE SubSeq(lines, 1, Min(a, Len(lines))) \o
         SubSeq(lines, Min(b, Len(lines)) + 1, Len(lines))

\* the body of the loop over sorted_edits, for one edit
ApplyEdit(lines, edit) ==
    LET new_text   == _get_edit_text(edit)
        start_line == edit.range.start.line
        start_char == edit.range.start.character
        end_line   == edit.range.end.line
        end_char   == edit.range.end.character
    IN  IF start_line >= Len(lines)
        THEN SetLine(PadLines(lines, start_line), start_line, new_text)
        ELSE LET start_line_content == lines[start_line + 1]
                 end_line_content ==
                     IF end_line >= Len(lines) THEN <<>> ELSE lines[end_line + 1]
             IN  IF start_line = end_line
                 THEN SetLine(lines, start_line,
                              Take(start_line_content, start_char) \o new_text
                                  \o Drop(start_line_content, end_char))
                 ELSE LET new_line == Take(start_line_content, start_char)
                                          \o new_text
                                          \o Drop(end_line_content, end_char)
                          replaced == SetLine(lines, start_line, new_line)
                      IN  IF end_line < Len(lines)
                          THEN DelLines(replaced, start_line + 1, end_line + 1)
                          ELSE replaced

RECURSIVE ApplyAll(_, _)
ApplyAll(lines, es) ==
    IF es = <<>> THEN lines ELSE ApplyAll(ApplyEdit(lines, Head(es)), Tail(es))

apply_text_edits(c, es) == Join(ApplyAll(SplitLines(c), sorted_edits(es)))

----------------------------------------------------------------------------
(* Inputs of the text engine *)

\* the contents: character i is letter i of "abcd.." or a line feed
Letters == <<"a", "b", "c", "d", "e", "f">>

Contents ==
    UNION { { [i \in 1..n |-> IF i \in nl THEN "\n" ELSE Letters[i]] :
                nl \in SUBSET (1..n) } : n \in 0..Min(MaxLen, Len(Letters)) }

Positions == [line : 0..MaxLine, character : 0..MaxChar]

PosLeq(p, q) ==
    \/ p.line < q.line
    \/ p.line = q.line /\ p.character <= q.character

Ranges == { r \in [start : Positions, end : Positions] : PosLeq(r.start, r.end) }

NewTexts == { <<>>, <<"x">>, <<"y", "\n">> }

TextEdits ==
    { [kind |-> "TextEdit", range |-> r, new_text |-> t] : r \in Ranges, t \in NewTexts }

SnippetTextEdits ==
    { [kind |-> "SnippetTextEdit", range |-> [start |-> p, end |-> p], snippet |-> <<"z">>] :
        p \in { q \in Positions : q.character = 0 } }

Edits == TextEdits \cup SnippetTextEdits

----------------------------------------------------------------------------
(* The workspace: uris, paths, file contents, document versions *)

MaxVersion == 2     \* largest document version the store reaches
MaxBatch == 2       \* longest document_changes list of a request

\* expected_version is None
Null == -1

URIs == {"file:///a.py", "file:///b.py"}

\* the uri of a file that no request has yet created
NewURI == "file:///new.py"

\* from_uri(uri, relative=False), and the path write_file derives from its uri:
\* the uri without its "file://" scheme
from_uri(uri) ==
    IF uri = "file:///a.py" THEN "/a.py"
    ELSE IF uri = "file:///b.py" THEN "/b.py"
    ELSE "/new.py"

Paths == { from_uri(u) : u \in URIs }

OldText == <<"a", "b", "\n", "c", "\n">>

\* the edits every TextDocumentEdit and changes entry of the model carries,
\* listed in document order: "a" -> "x" on line 0, then "c" -> "y" on line 1
DocEdits ==
    << [kind |-> "TextEdit", new_text |-> <<"x">>,
        range |-> [start |-> [line |-> 0, character |-> 0],
                   end |-> [line |-> 0, character |-> 1]]],
       [kind |-> "TextEdit", new_text |-> <<"y">>,
        range |-> [start |-> [line |-> 1, character |-> 0],
                   end |-> [line |-> 1, character |-> 1]]] >>

NewText == <<"x", "b", "\n", "y", "\n">>

FileContents == {OldText, NewText}

None == <<"None">>

NoException == [type |-> "none", message |-> None]

NoOutcome == [kind |-> "none"]

----------------------------------------------------------------------------
(* DocumentStateManager: uri -> DocumentState(content, version) *)

DocumentState(c, v) == [content |-> c, version |-> v]

IsRegistered(ds, uri) == uri \in DOMAIN ds

\* every accessor raises KeyError("Document ... not found") on an absent uri
NotFound(uri) == [type |-> "KeyError", message |-> <<"Document not found", uri>>]

AlreadyRegistered(uri) ==
    [type |-> "KeyError", message |-> <<"Document is already registered", uri>>]

\* the store after register(uri, content, version) on an absent uri
register(ds, uri, c, v) ==
    [u \in DOMAIN ds \cup {uri} |-> IF u = uri THEN DocumentState(c, v) ELSE ds[u]]

\* the store after unregister(uri)
unregister(ds, uri) == [u \in DOMAIN ds \ {uri} |-> ds[u]]

\* get_version(uri) on a registered uri
get_version(ds, uri) == ds[uri].version

\* get_content(uri) on a registered uri
get_content(ds, uri) == ds[uri].content

\* the store after update_content(uri, new) on a registered uri
update_content(ds, uri, c) ==
    [ds EXCEPT ![uri] = DocumentState(c, ds[uri].version + 1)]

\* the store after increment_version(uri) on a registered uri
increment_version(ds, uri) ==
    [ds EXCEPT ![uri] = DocumentState(ds[uri].content, ds[uri].version + 1)]

\* what a method call leaves: the store, the exception raised (or
\* NoException) and the value returned (None if none)
Result(ds, exc, value) == [store |-> ds, raised |-> exc, returned |-> value]

\* register replacing the entry of a uri that is already registered
call_register_Overwrite(ds, uri, c, v) ==
    Result(register(ds, uri, c, v), NoException, None)

\* DocumentStateManager.register(uri, content, version)
call_register(ds, uri, c, v) ==
    IF IsRegistered(ds, uri)
    THEN Result(ds, AlreadyRegistered(uri), None)
    ELSE Result(register(ds, uri, c, v), NoException, None)

\* unregister dropping every entry of the store
call_unregister_Clear(ds, uri) ==
    IF IsRegistered(ds, uri)
    THEN Result(<<>>, NoException, None)
    ELSE Result(ds, NotFound(uri), None)

\* DocumentStateManager.unregister(uri)
call_unregister(ds, uri) ==
    IF IsRegistered(ds, uri)
    THEN Result(unregister(ds, uri), NoException, None)
    ELSE Result(ds, NotFound(uri), None)

\* DocumentStateManager.get_version(uri)
call_get_version(ds, uri) ==
    IF IsRegistered(ds, uri)
    THEN Result(ds, NoException, <<get_version(ds, uri)>>)
    ELSE Result(ds, NotFound(uri), None)

\* DocumentStateManager.get_content(uri)
call_get_content(ds, uri) ==
    IF IsRegistered(ds, uri)
    THEN Result(ds, NoException, get_content(ds, uri))
    ELSE Result(ds, NotFound(uri), None)

\* update_content creating the entry of an absent uri at version 0
call_update_content_Creates(ds, uri, c) ==
    IF IsRegistered(ds, uri)
    THEN Result(update_content(ds, uri, c), NoException, <<get_version(ds, uri) + 1>>)
    ELSE Result(register(ds, uri, c, 0), NoException, <<0>>)

\* DocumentStateManager.update_content(uri, content): returns the new version
call_update_content(ds, uri, c) ==
    IF IsRegistered(ds, uri)
    THEN Result(update_content(ds, uri, c), NoException, <<get_version(ds, uri) + 1>>)
    ELSE Result(ds, NotFound(uri), None)

\* increment_version returning the version it found
call_increment_version_ReturnsOld(ds, uri) ==
    IF IsRegistered(ds, uri)
    THEN Result(increment_version(ds, uri), NoException, <<get_version(ds, uri)>>)
    ELSE Result(ds, NotFound(uri), None)

\* DocumentStateManager.increment_version(uri): returns the new version
call_increment_version(ds, uri) ==
    IF IsRegistered(ds, uri)
    THEN Result(increment_version(ds, uri), NoException, <<get_version(ds, uri) + 1>>)
    ELSE Result(ds, NotFound(uri), None)

\* no call made yet
NoCall ==
    [op |-> "none", uri |-> "", content |-> None, version |-> Null,
     before |-> <<>>, raised |-> NoException, returned |-> None,
     prev |-> [op |-> "none", uri |-> "", ok |-> FALSE]]

----------------------------------------------------------------------------
(* The file collaborators *)

FileNotFoundError(path) ==
    [type |-> "FileNotFoundError", message |-> <<"File not found", path>>]

PermissionError(path) ==
    [type |-> "PermissionError", message |-> <<"Permission denied", path>>]

\* the file system after write_file(uri, content)
write_file(fs, uri, c) ==
    [p \in DOMAIN fs \cup {from_uri(uri)} |-> IF p = from_uri(uri) THEN c ELSE fs[p]]

----------------------------------------------------------------------------
(* Workspace edits *)

TextDocumentEdit(uri, version) ==
    [kind |-> "TextDocumentEdit", uri |-> uri, version |-> version, edits |-> DocEdits]

TextDocumentEdits ==
    { TextDocumentEdit(u, v) : u \in URIs, v \in {Null} \cup 0..(MaxVersion - 1) }

CreateFile(uri, overwrite, ignore_if_exists) ==
    [kind |-> "CreateFile", uri |-> uri,
     overwrite |-> overwrite, ignore_if_exists |-> ignore_if_exists]

\* uri is old_uri
RenameFile(uri, new_uri, overwrite, ignore_if_exists) ==
    [kind |-> "RenameFile", uri |-> uri, new_uri |-> new_uri,
     overwrite |-> overwrite, ignore_if_exists |-> ignore_if_exists]

DeleteFile(uri, recursive, ignore_if_not_exists) ==
    [kind |-> "DeleteFile", uri |-> uri,
     recursive |-> recursive, ignore_if_not_exists |-> ignore_if_not_exists]

\* the resource operations without options, which play no part in the
\* applicator
ResourceOperations ==
    { CreateFile("file:///b.py", FALSE, FALSE),
      RenameFile("file:///a.py", "file:///b.py", FALSE, FALSE),
      DeleteFile("file:///a.py", FALSE, FALSE) }

DocumentChange == TextDocumentEdits \cup ResourceOperations

SeqsUpTo(S, n) == UNION { [1..k -> S] : k \in 0..n }

\* the changes mapping as its items in iteration order: (uri, edits) pairs
\* with distinct uris
ChangesMaps ==
    { m \in SeqsUpTo({ [uri |-> u, edits |-> DocEdits] : u \in URIs }, Cardinality(URIs)) :
        \A i, j \in 1..Len(m) : m[i].uri = m[j].uri => i = j }

\* the document changes a batch goes on with after its second entry
Tails ==
    { TextDocumentEdit(u, Null) : u \in URIs }
        \cup { DeleteFile("file:///a.py", FALSE, FALSE) }

\* the document_changes lists of at most n entries: the first two entries are
\* any document changes, the entries after them are drawn from Tails
RECURSIVE Batches(_)
Batches(n) ==
    IF n = 0 THEN { <<>> }
    ELSE Batches(n - 1) \cup
         { Append(b, c) : b \in { s \in Batches(n - 1) : Len(s) = n - 1 },
                          c \in IF n <= 2 THEN DocumentChange ELSE Tails }

\* a request carries document_changes alone, changes alone, or one document
\* change together with a changes map
WorkspaceEdits ==
    { [document_changes |-> dc, changes |-> ch] :
        dc \in Batches(MaxBatch), ch \in ChangesMaps } \
    { e \in [document_changes : Batches(MaxBatch), changes : ChangesMaps] :
        Len(e.document_changes) > 1 /\ e.changes # <<>> }

RequestIds == {"req-1", "req-2"}

EmptyEdit == [document_changes |-> <<>>, changes |-> <<>>]

----------------------------------------------------------------------------
(* WorkspaceEditApplicator *)

\* the branches of apply_workspace_edit tested in the other order
Mode_ChangesFirst(edit) ==
    IF edit.changes # <<>> THEN "changes"
    ELSE IF edit.document_changes # <<>> THEN "document_changes"
    ELSE "empty"

\* which form apply_workspace_edit honours
Mode(edit) ==
    IF edit.document_changes # <<>> THEN "document_changes"
    ELSE IF edit.changes # <<>> THEN "changes"
    ELSE "empty"

\* the entries iterated over from the last to the first
Work_Reversed(edit) ==
    LET es == IF Mode(edit) = "document_changes" THEN edit.document_changes
              ELSE IF Mode(edit) = "changes" THEN edit.changes
              ELSE <<>>
    IN  [i \in 1..Len(es) |-> es[Len(es) + 1 - i]]

\* the entries the applicator iterates over
Work(edit) ==
    IF Mode(edit) = "document_changes" THEN edit.document_changes
    ELSE IF Mode(edit) = "changes" THEN edit.changes
    ELSE <<>>

NotOpen(uri) ==
    [type |-> "EditApplicationError", message |-> <<"Document not open in client", uri>>]

VersionMismatch(uri, expected, actual) ==
    [type |-> "VersionMismatchError",
     message |-> <<"Version mismatch", uri, expected, actual>>]

\* the unsupported operation reported by an exception apply_workspace_edit
\* does not catch
NotSupported_Uncaught(kind) ==
    [type |-> "NotImplementedError", message |-> <<"not yet supported", kind>>]

NotSupported(kind) ==
    [type |-> "EditApplicationError", message |-> <<"not yet supported", kind>>]

\* the validation without the comparison of the two versions
ValidateVersion_NoComparison(edit, ds) ==
    IF edit.version # Null /\ ~IsRegistered(ds, edit.uri)
    THEN NotOpen(edit.uri)
    ELSE NoException

\* the validation run only for the documents the store tracks
ValidateVersion_TrackedOnly(edit, ds) ==
    IF edit.version # Null /\ IsRegistered(ds, edit.uri)
          /\ get_version(ds, edit.uri) # edit.version
    THEN VersionMismatch(edit.uri, edit.version, get_version(ds, edit.uri))
    ELSE NoException

\* _apply_text_document_edit up to its first await: the version validation
ValidateVersion(edit, ds) ==
    IF edit.version # Null
    THEN IF ~IsRegistered(ds, edit.uri)
         THEN NotOpen(edit.uri)
         ELSE IF get_version(ds, edit.uri) # edit.version
              THEN VersionMismatch(edit.uri, edit.version, get_version(ds, edit.uri))
              ELSE NoException
    ELSE NoException

\* the changes map refused for the documents that are not open
BeginEntry_ChangesNeedOpen(mode, entry, ds) ==
    IF mode = "changes"
    THEN IF IsRegistered(ds, entry.uri) THEN NoException ELSE NotOpen(entry.uri)
    ELSE IF entry.kind = "TextDocumentEdit" THEN ValidateVersion(entry, ds)
    ELSE NotSupported(entry.kind)

\* the match of _apply_document_changes on one change, and the part of
\* _apply_changes before its first await (which validates nothing): the
\* exception raised before any file is read, or NoException
BeginEntry(mode, entry, ds) ==
    IF mode = "changes" THEN NoException
    ELSE IF entry.kind = "TextDocumentEdit" THEN ValidateVersion(entry, ds)
    ELSE NotSupported(entry.kind)

\* VersionMismatchError is an EditApplicationError
IsEditApplicationError(exc) ==
    exc.type \in {"EditApplicationError", "VersionMismatchError"}

\* FileNotFoundError and PermissionError are OSErrors
IsOSErrorOrValueError(exc) ==
    exc.type \in {"FileNotFoundError", "PermissionError", "OSError", "ValueError"}

\* apply_workspace_edit without its second except clause
Caught_EditErrorsOnly(exc) == IsEditApplicationError(exc)

\* the except clauses of apply_workspace_edit
Caught(exc) == IsEditApplicationError(exc) \/ IsOSErrorOrValueError(exc)

\* respond_apply_edit wraps what apply_workspace_edit returned
Response(id, applied, failure_reason) ==
    [kind |-> "response", id |-> id, applied |-> applied,
     failure_reason |-> failure_reason]

\* apply_workspace_edit falling off its try block without a return value:
\* unpacking the missing tuple raises TypeError in _respond_apply_edit
ReturnSuccess_NoReturn(rq) ==
    /\ pc' = "responded"
    /\ raised' = NoException
    /\ outcome' = [kind |-> "exception", type |-> "TypeError"]

\* apply_workspace_edit returns (True, None); respond_apply_edit responds
ReturnSuccess(rq) ==
    /\ pc' = "responded"
    /\ raised' = NoException
    /\ outcome' = Response(rq.id, TRUE, None)

\* an exception reaches the try block of apply_workspace_edit: a caught one
\* becomes (False, message), any other leaves respond_apply_edit as it is
Raise(rq, exc) ==
    /\ pc' = "responded"
    /\ raised' = exc
    /\ outcome' = IF Caught(exc)
                  THEN Response(rq.id, FALSE, exc.message)
                  ELSE [kind |-> "exception", type |-> exc.type]

\* the loop validating every entry against the store as it was when the
\* request arrived
Proceed_StaleStore(rq, k, fs, ds) ==
    /\ idx' = k
    /\ IF k > Len(Work(rq.edit))
       THEN /\ ReturnSuccess(rq)
            /\ pre' = IF k = 1 THEN [files |-> fs, document_state |-> ds] ELSE pre
       ELSE /\ pre' = [files |-> fs, document_state |-> ds]
            /\ LET exc == BeginEntry(Mode(rq.edit), Work(rq.edit)[k], start.document_state)
               IN  IF exc = NoException
                   THEN /\ pc' = "read"
                        /\ raised' = NoException
                        /\ outcome' = NoOutcome
                   ELSE Raise(rq, exc)

\* the loop of _apply_document_changes / _apply_changes reaches entry k with
\* file system fs and store ds, and runs to its next await or to its end
Proceed(rq, k, fs, ds) ==
    /\ idx' = k
    /\ IF k > Len(Work(rq.edit))
       THEN /\ ReturnSuccess(rq)
            /\ pre' = IF k = 1 THEN [files |-> fs, document_state |-> ds] ELSE pre
       ELSE /\ pre' = [files |-> fs, document_state |-> ds]
            /\ LET exc == BeginEntry(Mode(rq.edit), Work(rq.edit)[k], ds)
               IN  IF exc = NoException
                   THEN /\ pc' = "read"
                        /\ raised' = NoException
                        /\ outcome' = NoOutcome
                   ELSE Raise(rq, exc)

\* the number of entries of the edit that can raise the version of uri, stored
\* as v: the entries for uri that carry no version or one not below v
Bumps(edit, uri, v) ==
    Cardinality({ i \in 1..Len(Work(edit)) :
        /\ Work(edit)[i].uri = uri
        /\ \/ Mode(edit) = "changes"
           \/ /\ Work(edit)[i].kind = "TextDocumentEdit"
              /\ Work(edit)[i].version = Null \/ Work(edit)[i].version >= v })

Call(k, op, target) == [entry |-> k, op |-> op, target |-> target]

\* the id the server gives the request: ids play no part in how an edit is
\* applied, so the requests of one form share one id
RequestId(edit) == IF Mode(edit) = "changes" THEN "req-2" ELSE "req-1"

\* workspace/applyEdit arrives with one of the edits E: respond_apply_edit
\* calls apply_workspace_edit, which runs to its first await
Receive(E) ==
    /\ pc = "idle"
    /\ \E id \in RequestIds, edit \in E :
        /\ id = RequestId(edit)
        /\ \A u \in DOMAIN document_state :
               document_state[u].version + Bumps(edit, u, document_state[u].version)
                   <= MaxVersion
        /\ req' = [id |-> id, edit |-> edit]
        /\ Proceed([id |-> id, edit |-> edit], 1, files, document_state)
    /\ start' = [files |-> files, document_state |-> document_state]
    /\ io_log' = <<>>
    /\ new_content' = <<>>
    /\ UNCHANGED <<files, document_state, history, store_call>>
    /\ UNCHANGED teVars
    /\ UNCHANGED clientVars

ReceiveRequest == Receive(WorkspaceEdits)

\* read_file(from_uri(uri)) ends: with the content, after which
\* apply_text_edits computes new_content, or with an OSError
ReadFile ==
    /\ pc = "read"
    /\ LET entry == Work(req.edit)[idx]
           path  == from_uri(entry.uri)
       IN  /\ io_log' = Append(io_log, Call(idx, "read_file", path))
           /\ \/ /\ path \in DOMAIN files
                 /\ new_content' = apply_text_edits(files[path], entry.edits)
                 /\ pc' = "write"
                 /\ UNCHANGED <<outcome, raised>>
              \/ /\ path \notin DOMAIN files
                 /\ Raise(req, FileNotFoundError(path))
                 /\ UNCHANGED new_content
              \/ /\ path \in DOMAIN files
                 /\ Raise(req, PermissionError(path))
                 /\ UNCHANGED new_content
    /\ UNCHANGED <<files, document_state, req, idx, pre, start, history, store_call>>
    /\ UNCHANGED teVars
    /\ UNCHANGED clientVars

\* the KeyError of update_content left unsuppressed in the changes path too
UpdateAndProceed_NoSuppress(fs) ==
    LET entry == Work(req.edit)[idx]
    IN  IF IsRegistered(document_state, entry.uri)
        THEN /\ document_state' = update_content(document_state, entry.uri, new_content)
             /\ Proceed(req, idx + 1, fs, document_state')
        ELSE /\ UNCHANGED document_state
             /\ Raise(req, NotFound(entry.uri))
             /\ UNCHANGED <<idx, pre>>

\* the store updated for every open document the request names, not only for
\* the one just written
UpdateAndProceed_WholeBatch(fs) ==
    LET named == { Work(req.edit)[k].uri : k \in 1..Len(Work(req.edit)) }
    IN  /\ document_state' =
               [u \in DOMAIN document_state |->
                   IF u \in named
                   THEN DocumentState(new_content, document_state[u].version + 1)
                   ELSE document_state[u]]
        /\ Proceed(req, idx + 1, fs, document_state')

\* the store entry replaced by a fresh one at version 0 instead of updated
UpdateAndProceed_Reregister(fs) ==
    LET entry == Work(req.edit)[idx]
    IN  IF IsRegistered(document_state, entry.uri)
        THEN /\ document_state' = register(unregister(document_state, entry.uri),
                                           entry.uri, new_content, 0)
             /\ Proceed(req, idx + 1, fs, document_state')
        ELSE /\ UNCHANGED document_state
             /\ IF Mode(req.edit) = "changes"
                THEN Proceed(req, idx + 1, fs, document_state)
                ELSE /\ Raise(req, NotFound(entry.uri))
                     /\ UNCHANGED <<idx, pre>>

\* the store updated with the content that was read, not the one written
UpdateAndProceed_StaleContent(fs) ==
    LET entry == Work(req.edit)[idx]
    IN  IF IsRegistered(document_state, entry.uri)
        THEN /\ document_state' = update_content(document_state, entry.uri,
                                                  pre.files[from_uri(entry.uri)])
             /\ Proceed(req, idx + 1, fs, document_state')
        ELSE /\ UNCHANGED document_state
             /\ IF Mode(req.edit) = "changes"
                THEN Proceed(req, idx + 1, fs, document_state)
                ELSE /\ Raise(req, NotFound(entry.uri))
                     /\ UNCHANGED <<idx, pre>>

\* the loop going on after write_file without the document state update
UpdateAndProceed_NoUpdate(fs) ==
    /\ UNCHANGED document_state
    /\ Proceed(req, idx + 1, fs, document_state)

\* the store update that follows write_file: update_content raises KeyError
\* on an unregistered uri, which only _apply_changes suppresses
UpdateAndProceed(fs) ==
    LET entry == Work(req.edit)[idx]
    IN  IF IsRegistered(document_state, entry.uri)
        THEN /\ document_state' = update_content(document_state, entry.uri, new_content)
             /\ Proceed(req, idx + 1, fs, document_state')
        ELSE /\ UNCHANGED document_state
             /\ IF Mode(req.edit) = "changes"
                THEN Proceed(req, idx + 1, fs, document_state)
                ELSE /\ Raise(req, NotFound(entry.uri))
                     /\ UNCHANGED <<idx, pre>>

\* write_file(uri, new_content) ends: written, after which the store is
\* updated and the loop goes on to its next await, or with an OSError
WriteFile ==
    /\ pc = "write"
    /\ LET entry == Work(req.edit)[idx]
       IN  \/ /\ files' = write_file(files, entry.uri, new_content)
              /\ io_log' = io_log \o << Call(idx, "write_file", entry.uri),
                                       Call(idx, "update_content", entry.uri) >>
              /\ UpdateAndProceed(files')
           \/ /\ io_log' = Append(io_log, Call(idx, "write_file", entry.uri))
              /\ Raise(req, PermissionError(from_uri(entry.uri)))
              /\ UNCHANGED <<files, document_state, idx, pre>>
    /\ UNCHANGED <<req, new_content, start, history, store_call>>
    /\ UNCHANGED teVars
    /\ UNCHANGED clientVars

\* the response (or the error) has left the handler: the client is idle again
\* and the record of the request is dropped
FinishRequest ==
    /\ pc = "responded"
    /\ pc' = "idle"
    /\ req' = [id |-> "req-1", edit |-> EmptyEdit]
    /\ idx' = 0
    /\ new_content' = <<>>
    /\ outcome' = NoOutcome
    /\ raised' = NoException
    /\ io_log' = <<>>
    /\ pre' = [files |-> files, document_state |-> document_state]
    /\ start' = [files |-> files, document_state |-> document_state]
    /\ UNCHANGED <<files, document_state, store_call>>
    /\ UNCHANGED teVars
    /\ UNCHANGED clientVars

Finish == FinishRequest /\ UNCHANGED history

----------------------------------------------------------------------------
(* The client between requests: documents are opened, closed and changed *)

Register ==
    /\ pc = "idle"
    /\ \E u \in URIs \ DOMAIN document_state, c \in FileContents, v \in 0..MaxVersion :
           document_state' = register(document_state, u, c, v)
    /\ pre' = [files |-> files, document_state |-> document_state']
    /\ start' = pre'
    /\ UNCHANGED <<files, req, pc, idx, new_content, outcome, raised, io_log, history,
                   store_call>>
    /\ UNCHANGED teVars
    /\ UNCHANGED clientVars

Unregister ==
    /\ pc = "idle"
    /\ \E u \in DOMAIN document_state :
           document_state' = unregister(document_state, u)
    /\ pre' = [files |-> files, document_state |-> document_state']
    /\ start' = pre'
    /\ UNCHANGED <<files, req, pc, idx, new_content, outcome, raised, io_log, history,
                   store_call>>
    /\ UNCHANGED teVars
    /\ UNCHANGED clientVars

IncrementVersion ==
    /\ pc = "idle"
    /\ \E u \in DOMAIN document_state :
           /\ document_state[u].version < MaxVersion
           /\ document_state' = increment_version(document_state, u)
    /\ pre' = [files |-> files, document_state |-> document_state']
    /\ start' = pre'
    /\ UNCHANGED <<files, req, pc, idx, new_content, outcome, raised, io_log, history,
                   store_call>>
    /\ UNCHANGED teVars
    /\ UNCHANGED clientVars

----------------------------------------------------------------------------
(* Spec: the client handling workspace/applyEdit requests one at a time *)

\* the contexts an open_files caller can enter
MaxContexts == 3

Contexts == 1..MaxContexts

\* the tasks that handle workspace/applyEdit requests at the same time
Tasks == {"req-1", "req-2"}

NoTask == [pc |-> "new", edit |-> <<>>, new_content |-> <<>>, outcome |-> NoOutcome]

\* the ids of the requests the server sends to the client
ServerIds == {"s1", "s2"}

\* the ids of the requests the client's handlers send to the server
ClientIds == {"c1", "c2"}

\* _dispatch not running
NoDispatch ==
    [running |-> FALSE, has_sender |-> FALSE, failed |-> FALSE, emitted |-> 0,
     wire |-> <<>>, handles |-> <<>>, resp_table |-> {}, to_client |-> <<>>,
     to_server |-> <<>>, client |-> [i \in ServerIds \cup ClientIds |-> "none"]]

\* iter_candidate not called
NoGenerator == [server |-> "local", pc |-> "idle", available |-> "unknown", yielded |-> <<>>]

\* no open_files context entered, no file operation called, no request being
\* handled beside the one of the applicator, no candidate asked for
ClientParked ==
    /\ tasks = [t \in Tasks |-> NoTask]
    /\ srv = NoDispatch
    /\ cand = NoGenerator
    /\ ref_count = [u \in URIs |-> 0]
    /\ open_contexts = [c \in Contexts |-> [status |-> "new", uris |-> {}]]
    /\ open_raised = NoException
    /\ fo = [op |-> "none", args |-> <<>>, can_will |-> FALSE, can_did |-> FALSE,
             pc |-> "idle", edit |-> <<>>, i |-> 0, log |-> <<>>,
             raised |-> NoException]

\* the applicator variables while the text engine is checked on its own
AppParked ==
    /\ ClientParked
    /\ files = <<>>
    /\ document_state = <<>>
    /\ req = [id |-> "req-1", edit |-> EmptyEdit]
    /\ pc = "idle"
    /\ idx = 0
    /\ new_content = <<>>
    /\ outcome = NoOutcome
    /\ raised = NoException
    /\ io_log = <<>>
    /\ pre = [files |-> <<>>, document_state |-> <<>>]
    /\ start = [files |-> <<>>, document_state |-> <<>>]
    /\ history = <<>>
    /\ store_call = NoCall

\* the text-engine variables while the applicator is checked
EditsParked ==
    /\ content = <<>>
    /\ edits = <<>>
    /\ result = NoResult
    /\ te_pc = "parked"

\* a new client: no document registered, any of the files on disk
Init ==
    /\ EditsParked
    /\ ClientParked
    /\ files \in UNION { [ps -> {OldText}] : ps \in SUBSET Paths }
    /\ document_state = <<>>
    /\ req = [id |-> "req-1", edit |-> EmptyEdit]
    /\ pc = "idle"
    /\ idx = 0
    /\ new_content = <<>>
    /\ outcome = NoOutcome
    /\ raised = NoException
    /\ io_log = <<>>
    /\ pre = [files |-> files, document_state |-> <<>>]
    /\ start = [files |-> files, document_state |-> <<>>]
    /\ history = <<>>
    /\ store_call = NoCall

Next ==
    \/ ReceiveRequest
    \/ ReadFile
    \/ WriteFile
    \/ Finish
    \/ Register
    \/ Unregister
    \/ IncrementVersion

Spec == Init /\ [][Next]_vars

----------------------------------------------------------------------------
(* SpecChain: requests of one TextDocumentEdit each, handled one after the   *)
(* other while the client does nothing else to the open documents            *)

MaxChain == 2       \* most requests handled in one behaviour

ChainEdits ==
    { [document_changes |-> <<t>>, changes |-> <<>>] : t \in TextDocumentEdits }

\* what the request being answered did, as seen from outside the handler
Handled ==
    LET e == req.edit.document_changes[1]
        path == from_uri(e.uri)
    IN  [uri |-> e.uri,
         version |-> e.version,
         edits |-> e.edits,
         registered |-> IsRegistered(start.document_state, e.uri),
         stored |-> IF IsRegistered(start.document_state, e.uri)
                    THEN get_version(start.document_state, e.uri) ELSE Null,
         before |-> IF path \in DOMAIN start.files THEN start.files[path] ELSE None,
         applied |-> outcome = Response(req.id, TRUE, None),
         io_error |-> IsOSErrorOrValueError(raised)]

\* h is a chain: requests on one registered uri, each carrying the version
\* stored when it was handled, none ended by an I/O error
IsChain(h) ==
    \A i \in 1..Len(h) :
        /\ h[i].uri = h[1].uri
        /\ h[i].registered
        /\ h[i].version # Null
        /\ h[i].version = h[i].stored
        /\ ~h[i].io_error

\* the server sends its next request as long as the chain is unbroken
ChainReceive ==
    /\ Len(history) < MaxChain
    /\ IsChain(history)
    /\ Receive(ChainEdits)

ChainFinish ==
    /\ FinishRequest
    /\ history' = Append(history, Handled)

NextChain ==
    \/ ChainReceive
    \/ ReadFile
    \/ WriteFile
    \/ ChainFinish
    \/ Register

SpecChain == Init /\ [][NextChain]_vars

----------------------------------------------------------------------------
(* SpecResource: requests whose document_changes hold a resource operation   *)
(* with its options, alone or after a TextDocumentEdit                       *)

CreateFiles ==
    { CreateFile(u, o, i) : u \in URIs, o \in BOOLEAN, i \in BOOLEAN }
        \cup { CreateFile(NewURI, FALSE, FALSE) }

\* the pairs of two different uris
Moves == { m \in URIs \X URIs : m[1] # m[2] }

RenameFiles ==
    { RenameFile(m[1], m[2], o, i) : m \in Moves, o \in BOOLEAN, i \in BOOLEAN }

DeleteFiles ==
    { DeleteFile(u, r, i) : u \in URIs, r \in BOOLEAN, i \in BOOLEAN }

OptionedOperations == CreateFiles \cup RenameFiles \cup DeleteFiles

\* text edit, then rename of the edited file, then creation of a new file
MixedBatch(uri, version, new_uri) ==
    << TextDocumentEdit(uri, version),
       RenameFile(uri, new_uri, FALSE, FALSE),
       CreateFile(NewURI, FALSE, FALSE) >>

ResourceEdits ==
    { [document_changes |-> dc, changes |-> <<>>] :
        dc \in { <<op>> : op \in OptionedOperations }
                \cup { <<t, op>> : t \in TextDocumentEdits, op \in OptionedOperations }
                \cup { MixedBatch(m[1], v, m[2]) : m \in Moves, v \in 0..(MaxVersion - 1) } }

ResourceReceive == Receive(ResourceEdits)

NextResource ==
    \/ ResourceReceive
    \/ ReadFile
    \/ WriteFile
    \/ Finish
    \/ Register

SpecResource == Init /\ [][NextResource]_vars

----------------------------------------------------------------------------
(* SpecStore: the DocumentStateManager called method by method *)

\* the method op is called with the arguments and leaves res; the call before
\* it is remembered by its method, its uri and whether it returned
StoreCall(op, uri, c, v, res) ==
    /\ pc = "idle"
    /\ document_state' = res.store
    /\ store_call' = [op |-> op, uri |-> uri, content |-> c, version |-> v,
                      before |-> document_state,
                      raised |-> res.raised, returned |-> res.returned,
                      prev |-> [op |-> store_call.op, uri |-> store_call.uri,
                                ok |-> store_call.raised = NoException]]
    /\ UNCHANGED <<files, req, pc, idx, new_content, outcome, raised, io_log, pre,
                   start, history>>
    /\ UNCHANGED teVars
    /\ UNCHANGED clientVars

CallRegister ==
    \E u \in URIs, c \in FileContents, v \in 0..MaxVersion :
        StoreCall("register", u, c, v, call_register(document_state, u, c, v))

CallUnregister ==
    \E u \in URIs :
        StoreCall("unregister", u, None, Null, call_unregister(document_state, u))

CallGetVersion ==
    \E u \in URIs :
        StoreCall("get_version", u, None, Null, call_get_version(document_state, u))

CallGetContent ==
    \E u \in URIs :
        StoreCall("get_content", u, None, Null, call_get_content(document_state, u))

\* versions are capped at MaxVersion
CallUpdateContent ==
    \E u \in URIs, c \in FileContents :
        /\ IsRegistered(document_state, u) => get_version(document_state, u) < MaxVersion
        /\ StoreCall("update_content", u, c, Null,
                     call_update_content(document_state, u, c))

CallIncrementVersion ==
    \E u \in URIs :
        /\ IsRegistered(document_state, u) => get_version(document_state, u) < MaxVersion
        /\ StoreCall("increment_version", u, None, Null,
                     call_increment_version(document_state, u))

NextStore ==
    \/ CallRegister
    \/ CallUnregister
    \/ CallGetVersion
    \/ CallGetContent
    \/ CallUpdateContent
    \/ CallIncrementVersion

SpecStore == Init /\ [][NextStore]_vars

----------------------------------------------------------------------------
(* SpecOpen: open_files contexts entered and exited in any order *)

\* entering a context reaches uri: the first holder registers the document
\* with the file's content, every holder is counted
OpenOne(b, uri, c) ==
    IF b.raised # NoException THEN b
    ELSE IF b.ref_count[uri] = 0
    THEN LET r == call_register(b.store, uri, c, 0)
         IN  IF r.raised # NoException
             THEN [b EXCEPT !.raised = r.raised]
             ELSE [store |-> r.store,
                   ref_count |-> [b.ref_count EXCEPT ![uri] = @ + 1],
                   raised |-> NoException]
    ELSE [b EXCEPT !.ref_count[uri] = @ + 1]

\* leaving a context that unregisters the document whoever else holds it
CloseOne_AlwaysUnregister(b, uri) ==
    IF b.raised # NoException THEN b
    ELSE LET r == call_unregister(b.store, uri)
         IN  [store |-> r.store,
              ref_count |-> [b.ref_count EXCEPT ![uri] = @ - 1],
              raised |-> r.raised]

\* leaving a context releases uri: the holder is uncounted, the last holder
\* unregisters the document
CloseOne(b, uri) ==
    IF b.raised # NoException THEN b
    ELSE IF b.ref_count[uri] = 1
    THEN LET r == call_unregister(b.store, uri)
         IN  [store |-> r.store,
              ref_count |-> [b.ref_count EXCEPT ![uri] = @ - 1],
              raised |-> r.raised]
    ELSE [b EXCEPT !.ref_count[uri] = @ - 1]

\* OpenOne over the uris a context names
RECURSIVE OpenAll(_, _, _)
OpenAll(b, us, fs) ==
    IF us = {} THEN b
    ELSE LET u == CHOOSE x \in us : TRUE
         IN  OpenAll(OpenOne(b, u, fs[from_uri(u)]), us \ {u}, fs)

\* CloseOne over the uris a context names
RECURSIVE CloseAll(_, _)
CloseAll(b, us) ==
    IF us = {} THEN b
    ELSE LET u == CHOOSE x \in us : TRUE
         IN  CloseAll(CloseOne(b, u), us \ {u})

\* the buffer and the store as OpenAll and CloseAll take them
Buffer == [store |-> document_state, ref_count |-> ref_count, raised |-> NoException]

\* `async with client.open_files(*paths)` is entered by a task, for files
\* that exist
OpenFiles ==
    /\ pc = "idle"
    /\ \E c \in Contexts, us \in SUBSET URIs \ {{}} :
        /\ open_contexts[c].status = "new"
        /\ \A u \in us : from_uri(u) \in DOMAIN files
        /\ LET b == OpenAll(Buffer, us, files)
           IN  /\ document_state' = b.store
               /\ ref_count' = b.ref_count
               /\ open_raised' = b.raised
               /\ open_contexts' =
                      IF b.raised = NoException
                      THEN [open_contexts EXCEPT ![c] = [status |-> "active", uris |-> us]]
                      ELSE open_contexts
    /\ UNCHANGED <<files, req, pc, idx, new_content, outcome, raised, io_log, pre,
                   start, history, store_call, fo, tasks, cand, srv>>
    /\ UNCHANGED teVars

\* the body of an open_files context ends and the context is left
CloseFiles ==
    /\ pc = "idle"
    /\ \E c \in Contexts :
        /\ open_contexts[c].status = "active"
        /\ LET b == CloseAll(Buffer, open_contexts[c].uris)
           IN  /\ document_state' = b.store
               /\ ref_count' = b.ref_count
               /\ open_raised' = b.raised
               /\ open_contexts' = [open_contexts EXCEPT ![c].status = "exited"]
    /\ UNCHANGED <<files, req, pc, idx, new_content, outcome, raised, io_log, pre,
                   start, history, store_call, fo, tasks, cand, srv>>
    /\ UNCHANGED teVars

NextOpen == OpenFiles \/ CloseFiles

SpecOpen == Init /\ [][NextOpen]_vars

----------------------------------------------------------------------------
(* SpecFileOps: one create/rename/delete_files_with_server call, step by step *)

\* the longest list of files a call is given
MaxFiles == 2

FileURIs == URIs \cup {NewURI}

\* the (old_uri, new_uri) pairs of a rename
FileRenames == { m \in FileURIs \X FileURIs : m[1] # m[2] }

\* what the server answers to a will* request: None, or a workspace edit
\* changing one document
WillAnswers ==
    { <<>> } \cup
    { << [document_changes |-> <<>>, changes |-> <<[uri |-> u, edits |-> DocEdits]>>] >> :
        u \in URIs }

\* the file system with path holding c
WithFile(fs, path, c) ==
    [q \in DOMAIN fs \cup {path} |-> IF q = path THEN c ELSE fs[q]]

\* the file system without path
WithoutFile(fs, path) == [q \in DOMAIN fs \ {path} |-> fs[q]]

\* create: the file written whether or not it exists
CreateOne_Overwrites(fs, uri) == WithFile(fs, from_uri(uri), <<>>)

\* create: an empty file is written where none exists
CreateOne(fs, uri) ==
    IF from_uri(uri) \in DOMAIN fs THEN fs
    ELSE WithFile(fs, from_uri(uri), <<>>)

\* rename: an existing old path is moved to the new path
RenameOne(fs, m) ==
    IF from_uri(m[1]) \in DOMAIN fs
    THEN WithFile(WithoutFile(fs, from_uri(m[1])), from_uri(m[2]), fs[from_uri(m[1])])
    ELSE fs

\* delete: an existing path is unlinked
DeleteOne(fs, uri) ==
    IF from_uri(uri) \in DOMAIN fs THEN WithoutFile(fs, from_uri(uri)) ELSE fs

\* the file-system step of operation op on the list item a
FsStep(op, fs, a) ==
    IF op = "create" THEN CreateOne(fs, a)
    ELSE IF op = "rename" THEN RenameOne(fs, a)
    ELSE DeleteOne(fs, a)

\* client.apply_workspace_edit on an edit in the changes form, from entry k on:
\* each file is read, edited and written, and the store is updated for the
\* documents that are open; a file that cannot be read ends it
RECURSIVE ApplyChanges(_, _, _)
ApplyChanges(st, entries, k) ==
    IF k > Len(entries) \/ st.raised # NoException THEN st
    ELSE LET uri  == entries[k].uri
             path == from_uri(uri)
         IN  IF path \notin DOMAIN st.files
             THEN [st EXCEPT !.raised = FileNotFoundError(path)]
             ELSE LET new == apply_text_edits(st.files[path], entries[k].edits)
                  IN  ApplyChanges(
                          [files |-> [st.files EXCEPT ![path] = new],
                           store |-> IF IsRegistered(st.store, uri)
                                     THEN update_content(st.store, uri, new)
                                     ELSE st.store,
                           raised |-> NoException],
                          entries, k + 1)

\* where a call goes once item i - 1 of its list is done
AfterItem(f, i) ==
    IF i <= Len(f.args) THEN "fs"
    ELSE IF f.can_did THEN "did"
    ELSE "done"

FoStep(name) == [step |-> name]

\* op_files_with_server(client, args) is called on a client that has, or has
\* not, the will* and did* capabilities
CallFileOperation(op, args) ==
    /\ pc = "idle"
    /\ fo.pc = "idle"
    /\ \E w, d \in BOOLEAN :
           LET f == [op |-> op, args |-> args, can_will |-> w, can_did |-> d,
                     pc |-> "idle", edit |-> <<>>, i |-> 1, log |-> <<>>,
                     raised |-> NoException]
           IN  fo' = [f EXCEPT !.pc = IF w THEN "will" ELSE AfterItem(f, 1)]
    /\ UNCHANGED <<files, document_state, ref_count, open_contexts, open_raised, tasks, cand, srv>>
    /\ UNCHANGED <<req, pc, idx, new_content, outcome, raised, io_log, pre, start,
                   history, store_call>>
    /\ UNCHANGED teVars

create_files_with_server ==
    \E uris \in SeqsUpTo(FileURIs, MaxFiles) : CallFileOperation("create", uris)

rename_files_with_server ==
    \E file_renames \in SeqsUpTo(FileRenames, MaxFiles) :
        CallFileOperation("rename", file_renames)

delete_files_with_server ==
    \E uris \in SeqsUpTo(FileURIs, MaxFiles) : CallFileOperation("delete", uris)

\* the will* request is sent and answered
RequestWill ==
    /\ fo.pc = "will"
    /\ \E answer \in WillAnswers :
           fo' = [fo EXCEPT !.edit = answer,
                            !.log = Append(@, FoStep("will")),
                            !.pc = IF answer # <<>> THEN "apply" ELSE AfterItem(fo, 1)]
    /\ UNCHANGED <<files, document_state, ref_count, open_contexts, open_raised, tasks, cand, srv>>
    /\ UNCHANGED <<req, pc, idx, new_content, outcome, raised, io_log, pre, start,
                   history, store_call>>
    /\ UNCHANGED teVars

\* the edit the server returned is applied; an exception ends the call
ApplyReturnedEdit ==
    /\ fo.pc = "apply"
    /\ LET st == ApplyChanges([files |-> files, store |-> document_state,
                               raised |-> NoException],
                              Work(fo.edit[1]), 1)
       IN  /\ files' = st.files
           /\ document_state' = st.store
           /\ fo' = [fo EXCEPT !.log = Append(@, FoStep("apply")),
                               !.raised = st.raised,
                               !.pc = IF st.raised # NoException THEN "done"
                                      ELSE AfterItem(fo, 1)]
    /\ UNCHANGED <<ref_count, open_contexts, open_raised, tasks, cand, srv>>
    /\ UNCHANGED <<req, pc, idx, new_content, outcome, raised, io_log, pre, start,
                   history, store_call>>
    /\ UNCHANGED teVars

\* the file-system operation on the next item of the list: it is done, or the
\* file system refuses it and the exception ends the call
FileSystemStep ==
    /\ fo.pc = "fs"
    /\ LET a == fo.args[fo.i]
           done == [fo EXCEPT !.log = Append(@, [step |-> "fs", item |-> fo.i])]
       IN  \/ /\ files' = FsStep(fo.op, files, a)
              /\ fo' = [done EXCEPT !.i = @ + 1, !.pc = AfterItem(fo, fo.i + 1)]
           \/ /\ FsStep(fo.op, files, a) # files
              /\ files' = files
              /\ fo' = [done EXCEPT !.pc = "done",
                                    !.raised = PermissionError(
                                        from_uri(IF fo.op = "rename" THEN a[1] ELSE a))]
    /\ UNCHANGED <<document_state, ref_count, open_contexts, open_raised, tasks, cand, srv>>
    /\ UNCHANGED <<req, pc, idx, new_content, outcome, raised, io_log, pre, start,
                   history, store_call>>
    /\ UNCHANGED teVars

\* the did* notification is sent
NotifyDid ==
    /\ fo.pc = "did"
    /\ fo' = [fo EXCEPT !.log = Append(@, FoStep("did")), !.pc = "done"]
    /\ UNCHANGED <<files, document_state, ref_count, open_contexts, open_raised, tasks, cand, srv>>
    /\ UNCHANGED <<req, pc, idx, new_content, outcome, raised, io_log, pre, start,
                   history, store_call>>
    /\ UNCHANGED teVars

NextFileOps ==
    \/ create_files_with_server
    \/ rename_files_with_server
    \/ delete_files_with_server
    \/ RequestWill
    \/ ApplyReturnedEdit
    \/ FileSystemStep
    \/ NotifyDid

SpecFileOps == Init /\ [][NextFileOps]_vars

----------------------------------------------------------------------------
(* SpecConcurrent: two workspace/applyEdit requests of one TextDocumentEdit  *)
(* each, handled by two tasks that interleave at their awaits                *)

\* a second edit list, changing another character of the first line
OtherEdits ==
    << [kind |-> "TextEdit", new_text |-> <<"z">>,
        range |-> [start |-> [line |-> 0, character |-> 1],
                   end |-> [line |-> 0, character |-> 2]]] >>

\* the edits the two requests carry
ConcurrentEdits ==
    TextDocumentEdits \cup
    { [TextDocumentEdit(u, v) EXCEPT !.edits = OtherEdits] :
        u \in URIs, v \in {Null} \cup 0..(MaxVersion - 1) }

\* how respond_apply_edit ends on exception exc for request id: a caught one
\* becomes the response (False, message), any other leaves the handler
Reply(id, exc) ==
    IF Caught(exc) THEN Response(id, FALSE, exc.message)
    ELSE [kind |-> "exception", type |-> exc.type]

\* the documents are opened before the requests arrive
ConcurrentRegister ==
    /\ \A t \in Tasks : tasks[t].pc = "new"
    /\ Register

\* task t is given its request: the version check runs, and the task stops at
\* its first await (read_file) or ends
TaskBegin(t) ==
    /\ tasks[t].pc = "new"
    /\ \E e \in ConcurrentEdits :
           LET exc == BeginEntry("document_changes", e, document_state)
           IN  tasks' = [tasks EXCEPT ![t] =
                   IF exc = NoException
                   THEN [pc |-> "read", edit |-> <<e>>, new_content |-> <<>>,
                         outcome |-> NoOutcome]
                   ELSE [pc |-> "done", edit |-> <<e>>, new_content |-> <<>>,
                         outcome |-> Reply(t, exc)]]
    /\ UNCHANGED <<ref_count, open_contexts, open_raised, fo, cand, srv>>
    /\ UNCHANGED appVars
    /\ UNCHANGED teVars

\* read_file of task t ends: new_content is computed and the task stops at
\* write_file, or the file is missing
TaskRead(t) ==
    /\ tasks[t].pc = "read"
    /\ LET e    == tasks[t].edit[1]
           path == from_uri(e.uri)
       IN  tasks' = [tasks EXCEPT ![t] =
               IF path \in DOMAIN files
               THEN [@ EXCEPT !.pc = "write",
                              !.new_content = apply_text_edits(files[path], e.edits)]
               ELSE [@ EXCEPT !.pc = "done",
                              !.outcome = Reply(t, FileNotFoundError(path))]]
    /\ UNCHANGED <<ref_count, open_contexts, open_raised, fo, cand, srv>>
    /\ UNCHANGED appVars
    /\ UNCHANGED teVars

\* write_file of task t ends: the store is updated and the task returns
TaskWrite(t) ==
    /\ tasks[t].pc = "write"
    /\ LET e == tasks[t].edit[1]
       IN  /\ files' = write_file(files, e.uri, tasks[t].new_content)
           /\ IF IsRegistered(document_state, e.uri)
              THEN /\ document_state' =
                          update_content(document_state, e.uri, tasks[t].new_content)
                   /\ tasks' = [tasks EXCEPT ![t].pc = "done",
                                             ![t].outcome = Response(t, TRUE, None)]
              ELSE /\ UNCHANGED document_state
                   /\ tasks' = [tasks EXCEPT ![t].pc = "done",
                                             ![t].outcome = Reply(t, NotFound(e.uri))]
    /\ UNCHANGED <<ref_count, open_contexts, open_raised, fo, cand, srv>>
    /\ UNCHANGED <<req, pc, idx, new_content, outcome, raised, io_log, pre, start,
                   history, store_call>>
    /\ UNCHANGED teVars

NextConcurrent ==
    \/ ConcurrentRegister
    \/ \E t \in Tasks : TaskBegin(t)
    \/ \E t \in Tasks : TaskRead(t)
    \/ \E t \in Tasks : TaskWrite(t)

SpecConcurrent == Init /\ [][NextConcurrent]_vars

----------------------------------------------------------------------------
(* SpecCandidates: DefaultServers.iter_candidate, resumed by its consumer     *)
(* from yield to yield                                                       *)

\* the `server` argument: a ServerType name, or a Server instance of the caller
ServerArguments == {"local", "container", "given"}

\* the servers yielded after the availability check of the local server,
\* inside the suppress block, whatever the check said
CheckedCandidates_Always(ok) == <<"local">>

\* the servers yielded after the availability check of the local server,
\* inside the suppress block: the local one if the check raised nothing
CheckedCandidates(ok) == IF ok THEN <<"local">> ELSE <<>>

\* the generator goes to position p, having yielded the servers ys
Yield(p, ys) ==
    /\ cand' = [cand EXCEPT !.pc = p, !.yielded = @ \o ys]
    /\ UNCHANGED <<ref_count, open_contexts, open_raised, fo, tasks, srv>>
    /\ UNCHANGED appVars
    /\ UNCHANGED teVars

\* servers.iter_candidate(server=...) is called: nothing runs yet
iter_candidate ==
    /\ cand.pc = "idle"
    /\ \E server \in ServerArguments :
           cand' = [server |-> server, pc |-> "begin", available |-> "unknown",
                    yielded |-> <<>>]
    /\ UNCHANGED <<ref_count, open_contexts, open_raised, fo, tasks, srv>>
    /\ UNCHANGED appVars
    /\ UNCHANGED teVars

\* the match statement yields the requested server
YieldRequested ==
    /\ cand.pc = "begin"
    /\ Yield("requested", <<cand.server>>)

\* resumed after the first yield: local.check_availability() returns or
\* raises ServerRuntimeError, and the generator yields the local server, or
\* leaves the suppress block and yields the container server
CheckAvailability ==
    /\ cand.pc = "requested"
    /\ \E ok \in BOOLEAN :
           /\ cand' = [cand EXCEPT
                  !.available = IF ok THEN "yes" ELSE "no",
                  !.pc = IF CheckedCandidates(ok) # <<>> THEN "available" ELSE "container",
                  !.yielded = @ \o (IF CheckedCandidates(ok) # <<>>
                                    THEN CheckedCandidates(ok) ELSE <<"container">>)]
    /\ UNCHANGED <<ref_count, open_contexts, open_raised, fo, tasks, srv>>
    /\ UNCHANGED appVars
    /\ UNCHANGED teVars

\* resumed after the yield of the available local server
YieldContainer ==
    /\ cand.pc = "available"
    /\ Yield("container", <<"container">>)

\* resumed after the yield of the container server
YieldLocal ==
    /\ cand.pc = "container"
    /\ Yield("local", <<"local">>)

\* resumed after the last yield: the generator returns
ReturnCandidates ==
    /\ cand.pc = "local"
    /\ Yield("done", <<>>)

\* the consumer stops iterating at a yield
CloseCandidates ==
    /\ cand.pc \in {"requested", "available", "container", "local"}
    /\ Yield("closed", <<>>)

NextCandidates ==
    \/ iter_candidate
    \/ YieldRequested
    \/ CheckAvailability
    \/ YieldContainer
    \/ YieldLocal
    \/ ReturnCandidates
    \/ CloseCandidates

SpecCandidates == Init /\ [][NextCandidates]_vars

----------------------------------------------------------------------------
(* SpecDispatch: Server._dispatch receiving packages and running one handle  *)
(* task for each, with the client's handlers and the server around it        *)

\* the most packages the server sends of its own accord
MaxPackages == 2

\* the same where the handlers' progress is checked
MaxFairPackages == 1

\* the id of the client request the handler of server request i sends
ClientId(i) == IF i = "s1" THEN "c1" ELSE "c2"

\* a JSON-RPC package by the keys it has
Package(id, has_method, has_result, has_error) ==
    [id |-> id, method |-> has_method, result |-> has_result, error |-> has_error]

RequestPackage(id) == Package(id, TRUE, FALSE, FALSE)

ResponsePackage(id) == Package(id, FALSE, TRUE, FALSE)

NotificationPackage == Package("none", TRUE, FALSE, FALSE)

\* the packages the server sends of its own accord: requests, notifications,
\* and packages with an id and nothing else
Unsolicited ==
    { RequestPackage(i) : i \in ServerIds }
        \cup { NotificationPackage }
        \cup { Package("s1", FALSE, FALSE, FALSE) }

\* the answers to the client request id: a result, an error, and a result
\* that carries a method key as well
Answers(id) ==
    { ResponsePackage(id), Package(id, FALSE, FALSE, TRUE), Package(id, TRUE, TRUE, FALSE) }

\* the match statement with the request case tried first
Shape_MethodFirst(p) ==
    IF p.id # "none" /\ p.method THEN "request"
    ELSE IF p.id # "none" /\ (p.result \/ p.error) THEN "response"
    ELSE IF p.method THEN "notification"
    ELSE "other"

\* the case of the match statement that takes package p
Shape(p) ==
    IF p.id # "none" /\ (p.result \/ p.error) THEN "response"
    ELSE IF p.id # "none" /\ p.method THEN "request"
    ELSE IF p.method THEN "notification"
    ELSE "other"

\* the receive loop waits for the handle tasks it started before it receives
\* the next package
CanReceive_Inline(s) == \A k \in 1..Len(s.handles) : s.handles[k].pc \in {"done"}

\* the receive loop hands each package to a task of its own and goes on
CanReceive(s) == TRUE

\* srv becomes s, nothing else changes
Dispatch(s) ==
    /\ srv' = s
    /\ UNCHANGED <<ref_count, open_contexts, open_raised, fo, tasks, cand>>
    /\ UNCHANGED appVars
    /\ UNCHANGED teVars

Active == srv.running /\ ~srv.failed

\* _dispatch(sender) is started, with a sender or with None
StartDispatch ==
    /\ ~srv.running
    /\ \E sender \in BOOLEAN :
           Dispatch([srv EXCEPT !.running = TRUE, !.has_sender = sender])

\* a package of the server's own accord is written; a request id is used once
EmitOne ==
    \E p \in Unsolicited :
        /\ Shape(p) = "request" =>
               \A k \in 1..Len(srv.handles) : srv.handles[k].package # p
        /\ \A k \in 1..Len(srv.wire) : Shape(p) = "request" => srv.wire[k] # p
        /\ Dispatch([srv EXCEPT !.wire = Append(@, p), !.emitted = @ + 1])

\* the server writes a package of its own accord
ServerEmit ==
    /\ Active
    /\ srv.emitted < MaxPackages
    /\ EmitOne

\* the same within the bound of the progress check
ServerEmitFair ==
    /\ Active
    /\ srv.emitted < MaxFairPackages
    /\ EmitOne

\* the server answers the client request c, once
ServerAnswer(c) ==
    /\ Active
    /\ \E k \in 1..Len(srv.to_server) : srv.to_server[k] = RequestPackage(c)
    /\ \A k \in 1..Len(srv.wire) : srv.wire[k].id # c
    /\ \A k \in 1..Len(srv.handles) : srv.handles[k].package.id # c
    /\ \E p \in Answers(c) : Dispatch([srv EXCEPT !.wire = Append(@, p)])

\* `while package := await self.receive(): tg.soonify(handle)(package)`
DispatchReceive ==
    /\ Active
    /\ srv.wire # <<>>
    /\ CanReceive(srv)
    /\ Dispatch([srv EXCEPT !.wire = Tail(@),
                            !.handles = Append(@, [package |-> Head(srv.wire),
                                                   pc |-> "start"])])

\* the handle task k runs to its first await or to its end
HandleStart(k) ==
    /\ Active
    /\ k \in 1..Len(srv.handles)
    /\ srv.handles[k].pc = "start"
    /\ LET p == srv.handles[k].package
       IN  IF Shape(p) = "response"
           THEN Dispatch([srv EXCEPT !.resp_table = @ \cup {p},
                                     !.handles[k].pc = "done"])
           ELSE IF Shape(p) = "request"
           THEN IF srv.has_sender
                THEN Dispatch([srv EXCEPT !.to_client = Append(@, p),
                                          !.client[p.id] = "pending",
                                          !.handles[k].pc = "waiting"])
                ELSE Dispatch([srv EXCEPT !.failed = TRUE,
                                          !.handles[k].pc = "raised"])
           ELSE IF Shape(p) = "notification" /\ srv.has_sender
           THEN Dispatch([srv EXCEPT !.to_client = Append(@, p),
                                     !.handles[k].pc = "done"])
           ELSE Dispatch([srv EXCEPT !.handles[k].pc = "done"])

\* rx.receive() of handle task k returns the client's response, which is sent
\* to the server
HandleReply(k) ==
    /\ Active
    /\ k \in 1..Len(srv.handles)
    /\ srv.handles[k].pc = "waiting"
    /\ srv.client[srv.handles[k].package.id] = "answered"
    /\ Dispatch([srv EXCEPT !.to_server = Append(@, ResponsePackage(srv.handles[k].package.id)),
                            !.handles[k].pc = "done"])

\* the client's handler of server request i calls Server.request: its request
\* is sent and the handler waits for the response table
ClientAsk(i) ==
    /\ Active
    /\ srv.client[i] = "pending"
    /\ Dispatch([srv EXCEPT !.to_server = Append(@, RequestPackage(ClientId(i))),
                            !.client[i] = "asked"])

\* the client's handler of server request i puts its response on tx: at once,
\* or when the response to its own request has reached the response table
ClientReply(i) ==
    /\ Active
    /\ \/ srv.client[i] = "pending"
       \/ /\ srv.client[i] = "asked"
          /\ \E p \in srv.resp_table : p.id = ClientId(i)
    /\ Dispatch([srv EXCEPT !.client[i] = "answered"])

NextDispatch ==
    \/ StartDispatch
    \/ ServerEmit
    \/ \E c \in ClientIds : ServerAnswer(c)
    \/ DispatchReceive
    \/ \E k \in 1..(MaxPackages + Cardinality(ServerIds)) : HandleStart(k)
    \/ \E k \in 1..(MaxPackages + Cardinality(ServerIds)) : HandleReply(k)
    \/ \E i \in ServerIds : ClientAsk(i)
    \/ \E i \in ServerIds : ClientReply(i)

SpecDispatch == Init /\ [][NextDispatch]_vars

\* every task of the group is run, the client's handlers go on, and the
\* server answers the requests it is sent
DispatchFairness ==
    /\ WF_vars(DispatchReceive)
    /\ \A k \in 1..(MaxPackages + Cardinality(ServerIds)) :
           WF_vars(HandleStart(k)) /\ WF_vars(HandleReply(k))
    /\ \A i \in ServerIds : WF_vars(ClientReply(i))
    /\ \A c \in ClientIds : WF_vars(ServerAnswer(c))

NextDispatchFair ==
    \/ StartDispatch
    \/ ServerEmitFair
    \/ \E c \in ClientIds : ServerAnswer(c)
    \/ DispatchReceive
    \/ \E k \in 1..(MaxPackages + Cardinality(ServerIds)) : HandleStart(k)
    \/ \E k \in 1..(MaxPackages + Cardinality(ServerIds)) : HandleReply(k)
    \/ \E i \in ServerIds : ClientAsk(i)
    \/ \E i \in ServerIds : ClientReply(i)

SpecDispatchFair == Init /\ [][NextDispatchFair]_vars /\ DispatchFairness

----------------------------------------------------------------------------
(* SpecEdits: draw the arguments, call apply_text_edits *)

InitEdits ==
    /\ content \in Contents
    /\ edits = <<>>
    /\ result = NoResult
    /\ te_pc = "input"
    /\ AppParked

\* the caller appends one more edit to the list it will pass
AddEdit ==
    /\ te_pc = "input"
    /\ Len(edits) < MaxEdits
    /\ \E e \in Edits : edits' = Append(edits, e)
    /\ UNCHANGED <<content, result, te_pc>>
    /\ UNCHANGED appVars
    /\ UNCHANGED clientVars

\* result = apply_text_edits(content, edits)
CallApplyTextEdits ==
    /\ te_pc = "input"
    /\ result' = apply_text_edits(content, edits)
    /\ te_pc' = "done"
    /\ UNCHANGED <<content, edits>>
    /\ UNCHANGED appVars
    /\ UNCHANGED clientVars

NextEdits == AddEdit \/ CallApplyTextEdits

SpecEdits == InitEdits /\ [][NextEdits]_vars

----------------------------------------------------------------------------
(* SpecOneEdit: apply_text_edits called with a list of one edit, whose range *)
(* may end on a line number past the largest line number of SpecEdits        *)

PastEndRanges ==
    { [start |-> p, end |-> [line |-> l, character |-> c]] :
        p \in Positions, l \in (MaxLine + 1)..MaxLen, c \in 0..MaxChar }

PastEndEdits ==
    { [kind |-> "TextEdit", range |-> r, new_text |-> t] :
        r \in PastEndRanges, t \in NewTexts }

\* the caller passes a list of one edit
AddOneEdit ==
    /\ te_pc = "input"
    /\ edits = <<>>
    /\ \E e \in Edits \cup PastEndEdits : edits' = <<e>>
    /\ UNCHANGED <<content, result, te_pc>>
    /\ UNCHANGED appVars
    /\ UNCHANGED clientVars

NextOneEdit == AddOneEdit \/ CallApplyTextEdits

SpecOneEdit == InitEdits /\ [][NextOneEdit]_vars

----------------------------------------------------------------------------
(* Reference notions for the text-engine properties *)

\* two edits do not overlap when one ends at or before the start of the other
\* (two insertions at one position, or an insertion at the start of a replaced
\* range, do not overlap)
Disjoint(e, f) == PosLeq(e.range.end, f.range.start) \/ PosLeq(f.range.end, e.range.start)

NonOverlapping(es) ==
    \A i, j \in 1..Len(es) : i < j => Disjoint(es[i], es[j])

\* a line without its terminator
LineText(line) ==
    IF Len(line) >= 2 /\ line[Len(line) - 1] = "\r" /\ line[Len(line)] = "\n"
    THEN SubSeq(line, 1, Len(line) - 2)
    ELSE IF line # <<>> /\ IsLineBreak(line[Len(line)])
         THEN SubSeq(line, 1, Len(line) - 1)
         ELSE line

\* the position lies on an existing line, at or before the end of its text
InDocument(c, p) ==
    LET lines == SplitLines(c)
    IN  p.line < Len(lines) /\ p.character <= Len(LineText(lines[p.line + 1]))

AllInDocument(c, es) ==
    \A i \in 1..Len(es) :
        InDocument(c, es[i].range.start) /\ InDocument(c, es[i].range.end)

RECURSIVE LinesLen(_, _)
\* the number of characters of the first k lines
LinesLen(lines, k) == IF k = 0 THEN 0 ELSE LinesLen(lines, k - 1) + Len(lines[k])

\* the 0-based character offset of an in-document position in the content
Offset(c, p) == LinesLen(SplitLines(c), p.line) + p.character

Perms(n) == { f \in [1..n -> 1..n] : \A i, j \in 1..n : f[i] = f[j] => i = j }

Permute(es, f) == [i \in 1..Len(es) |-> es[f[i]]]

\* es is in document order: every edit ends at or before the start of the next
InDocumentOrder(es) ==
    \A i \in 1..(Len(es) - 1) : PosLeq(es[i].range.end, es[i + 1].range.start)

RECURSIVE SpliceFrom(_, _, _)
\* the original content from offset `from` on, with each range of the edits
\* (in document order) replaced by its text
SpliceFrom(c, es, from) ==
    IF es = <<>> THEN Drop(c, from)
    ELSE SubSeq(c, from + 1, Offset(c, Head(es).range.start))
             \o _get_edit_text(Head(es))
             \o SpliceFrom(c, Tail(es), Offset(c, Head(es).range.end))

\* every text that replaces all ranges in the original content at once; edits
\* sharing a position may appear in either order
SimultaneousResults(c, es) ==
    { SpliceFrom(c, Permute(es, f), 0) :
        f \in { g \in Perms(Len(es)) : InDocumentOrder(Permute(es, g)) } }

----------------------------------------------------------------------------
(* Claims about apply_text_edits, checked under SpecEdits *)

\* C6: for pairwise non-overlapping edits (insertions sharing a start position
\* with another edit included) every permutation of the edit list gives the
\* same output as the list as passed.
C6_OrderIndependence ==
    (te_pc = "done" /\ NonOverlapping(edits)) =>
        \A f \in Perms(Len(edits)) :
            apply_text_edits(content, Permute(edits, f)) = result

\* C7: for pairwise non-overlapping edits whose ranges lie inside the document
\* the output is the original content with every range replaced by its new
\* text at once (no edit shifts the positions of another).
C7_NoPositionalDrift ==
    (te_pc = "done" /\ NonOverlapping(edits) /\ AllInDocument(content, edits)) =>
        result \in SimultaneousResults(content, edits)

----------------------------------------------------------------------------
(* Notions for the applicator properties, read when the handler has ended *)

Responded == pc = "responded"

\* apply went through document_changes and stopped at entry idx, which failed
FailedAtEntry == Responded /\ Mode(req.edit) = "document_changes" /\ idx <= Len(Work(req.edit))

\* apply went through all of document_changes; its last entry is Work[idx - 1]
AppliedAll == Responded /\ Mode(req.edit) = "document_changes" /\ idx = Len(Work(req.edit)) + 1

\* the file of the uri is the same in file systems f and g (absent in both, or
\* present in both with the same content)
SameFile(f, g, uri) ==
    /\ from_uri(uri) \in DOMAIN f <=> from_uri(uri) \in DOMAIN g
    /\ from_uri(uri) \in DOMAIN f => f[from_uri(uri)] = g[from_uri(uri)]

\* the store entry of the uri is the same in stores d and e
SameEntry(d, e, uri) ==
    /\ uri \in DOMAIN d <=> uri \in DOMAIN e
    /\ uri \in DOMAIN d => d[uri] = e[uri]

\* no collaborator was called on behalf of entry k
Untouched(k) == \A i \in 1..Len(io_log) : io_log[i].entry # k

\* the entry at idx is a versioned TextDocumentEdit
VersionedEditAt(k) ==
    /\ Work(req.edit)[k].kind = "TextDocumentEdit"
    /\ Work(req.edit)[k].version # Null

----------------------------------------------------------------------------
(* Claims about the applicator and the responder, checked under Spec *)

C1_Pre ==
    /\ FailedAtEntry
    /\ VersionedEditAt(idx)
    /\ IsRegistered(pre.document_state, Work(req.edit)[idx].uri)
    /\ pre.document_state[Work(req.edit)[idx].uri].version # Work(req.edit)[idx].version

\* C1: a TextDocumentEdit with a non-null version for a registered uri whose
\* stored version differs from it fails with a version-mismatch reason naming
\* the expected and the actual version, and the file, the stored content and
\* the stored version of that uri are as they were when the entry was begun.
C1_VersionGate ==
    C1_Pre =>
        LET e == Work(req.edit)[idx]
        IN  /\ outcome = Response(req.id, FALSE,
                   <<"Version mismatch", e.uri, e.version,
                     pre.document_state[e.uri].version>>)
            /\ SameFile(files, pre.files, e.uri)
            /\ SameEntry(document_state, pre.document_state, e.uri)
            /\ Untouched(idx)

\* registered at version 2, the edit says 0, the file exists
C1_Witness ==
    /\ C1_Pre
    /\ Work(req.edit)[idx].version = 0
    /\ pre.document_state[Work(req.edit)[idx].uri].version = 2
    /\ from_uri(Work(req.edit)[idx].uri) \in DOMAIN files

C2_Pre ==
    /\ AppliedAll
    /\ VersionedEditAt(idx - 1)
    /\ IsRegistered(pre.document_state, Work(req.edit)[idx - 1].uri)
    /\ pre.document_state[Work(req.edit)[idx - 1].uri].version
           = Work(req.edit)[idx - 1].version

\* C2: a successful apply of a TextDocumentEdit to a registered uri whose
\* version matches raises the stored version of that uri by exactly 1, writes
\* the edited text to the file and leaves the stored content equal to the file
\* content.
C2_SuccessBumpsVersion ==
    C2_Pre =>
        LET e == Work(req.edit)[idx - 1]
            path == from_uri(e.uri)
        IN  /\ outcome = Response(req.id, TRUE, None)
            /\ IsRegistered(document_state, e.uri)
            /\ document_state[e.uri].version = pre.document_state[e.uri].version + 1
            /\ path \in DOMAIN files
            /\ files[path] = apply_text_edits(pre.files[path], e.edits)
            /\ document_state[e.uri].content = files[path]

\* the edit changed the file, and the store held another content than the file
C2_Witness ==
    /\ C2_Pre
    /\ files[from_uri(Work(req.edit)[idx - 1].uri)]
           # pre.files[from_uri(Work(req.edit)[idx - 1].uri)]
    /\ pre.document_state[Work(req.edit)[idx - 1].uri].content
           # pre.files[from_uri(Work(req.edit)[idx - 1].uri)]

C3_Pre ==
    /\ FailedAtEntry
    /\ VersionedEditAt(idx)
    /\ ~IsRegistered(pre.document_state, Work(req.edit)[idx].uri)

\* C3: a TextDocumentEdit with a non-null version for a uri that is not
\* registered fails with a document-not-open reason; no file is read or
\* written for it and the store still has no entry for that uri.
C3_UntrackedDocument ==
    C3_Pre =>
        LET e == Work(req.edit)[idx]
        IN  /\ outcome = Response(req.id, FALSE, <<"Document not open in client", e.uri>>)
            /\ Untouched(idx)
            /\ files = pre.files
            /\ document_state = pre.document_state
            /\ ~IsRegistered(document_state, e.uri)

\* the file of the untracked uri exists
C3_Witness ==
    /\ C3_Pre
    /\ from_uri(Work(req.edit)[idx].uri) \in DOMAIN files

\* C4: when entry k of a document_changes batch is the first to fail, no
\* later entry is attempted, the reason of entry k is the failure_reason of
\* the batch, and the effects of the entries before k remain in place.
C4_ShortCircuit ==
    FailedAtEntry =>
        /\ \A i \in 1..Len(io_log) : io_log[i].entry <= idx
        /\ outcome = Response(req.id, FALSE, raised.message)
        /\ raised # NoException
        /\ \A u \in URIs \ {Work(req.edit)[idx].uri} :
               SameFile(files, pre.files, u) /\ SameEntry(document_state, pre.document_state, u)

\* the failures the error taxonomy lists: document not open and unimplemented
\* operation (EditApplicationError), version mismatch, I/O errors
ListedFailures ==
    {"EditApplicationError", "VersionMismatchError", "FileNotFoundError", "PermissionError"}

C8_NullVersionUnconditional ==
    (/\ Responded
     /\ Len(req.edit.document_changes) = 1
     /\ req.edit.document_changes[1].kind = "TextDocumentEdit"
     /\ req.edit.document_changes[1].version = Null
     /\ from_uri(req.edit.document_changes[1].uri) \in DOMAIN start.files
     /\ ~IsOSErrorOrValueError(raised)) =>
        LET e == req.edit.document_changes[1]
        IN  /\ outcome = Response(req.id, TRUE, None)
            /\ files[from_uri(e.uri)] = apply_text_edits(start.files[from_uri(e.uri)], e.edits)

\* C9: every request is answered by a response that has the id of the
\* request and carries the outcome of the applicator, with applied true
\* exactly when failure_reason is None.
C9_ResponseShape ==
    Responded =>
        /\ outcome.kind = "response"
        /\ outcome.id = req.id
        /\ outcome.failure_reason = raised.message
        /\ outcome.applied <=> outcome.failure_reason = None

\* no document_changes and no changes (absent or empty: both are falsy)
C10_Pre == Responded /\ req.edit.document_changes = <<>> /\ req.edit.changes = <<>>

\* C10: an empty or absent edit returns (true, None) and leaves every file
\* and every document state entry unchanged.
C10_EmptyEdit ==
    C10_Pre =>
        /\ outcome = Response(req.id, TRUE, None)
        /\ files = start.files
        /\ document_state = start.document_state
        /\ io_log = <<>>

\* an empty edit arrives while files exist and a document is registered
C10_Witness ==
    /\ C10_Pre
    /\ DOMAIN files = Paths
    /\ DOMAIN document_state # {}

\* the request carries both forms
C11_BothForms == Responded /\ req.edit.document_changes # <<>> /\ req.edit.changes # <<>>

\* uri has a TextDocumentEdit among the document changes
EditedByDocumentChanges(uri) ==
    \E k \in 1..Len(req.edit.document_changes) :
        /\ req.edit.document_changes[k].kind = "TextDocumentEdit"
        /\ req.edit.document_changes[k].uri = uri

\* C11: only one form of a WorkspaceEdit is honoured. With document_changes
\* non-empty every collaborator call is made for a TextDocumentEdit of
\* document_changes, and a uri that only the changes map names keeps its file
\* and its store entry; the changes map is gone through only when
\* document_changes is absent or empty, and then it is.
C11_OneFormHonoured ==
    Responded =>
        /\ req.edit.document_changes # <<>> =>
            /\ \A i \in 1..Len(io_log) :
                /\ io_log[i].entry <= Len(req.edit.document_changes)
                /\ req.edit.document_changes[io_log[i].entry].kind = "TextDocumentEdit"
                /\ io_log[i].target \in
                       { req.edit.document_changes[io_log[i].entry].uri,
                         from_uri(req.edit.document_changes[io_log[i].entry].uri) }
            /\ \A u \in URIs : ~EditedByDocumentChanges(u) =>
                   SameFile(files, start.files, u)
                       /\ SameEntry(document_state, start.document_state, u)
        /\ (req.edit.document_changes = <<>> /\ req.edit.changes # <<>>) =>
            /\ io_log # <<>>
            /\ io_log[1] = Call(1, "read_file", from_uri(req.edit.changes[1].uri))

\* document_changes edits one file and succeeds, the changes map names the
\* other file, which exists and is registered
C11_Witness ==
    /\ C11_BothForms
    /\ outcome = Response(req.id, TRUE, None)
    /\ \E k \in 1..Len(req.edit.changes) :
        /\ ~EditedByDocumentChanges(req.edit.changes[k].uri)
        /\ from_uri(req.edit.changes[k].uri) \in DOMAIN files
        /\ IsRegistered(document_state, req.edit.changes[k].uri)

\* the changes map was gone through and no I/O error ended it
C12_Pre == Responded /\ Mode(req.edit) = "changes" /\ ~IsOSErrorOrValueError(raised)

\* the request is one TextDocumentEdit in document_changes, and it was applied
SingleEditApplied ==
    /\ Responded
    /\ Len(req.edit.document_changes) = 1
    /\ req.edit.document_changes[1].kind = "TextDocumentEdit"
    /\ outcome = Response(req.id, TRUE, None)

\* C12: the changes map is applied without version validation: whatever the
\* store holds for its uris (any version, or no entry) it returns (true, None)
\* and every file of the map holds apply_text_edits of its old content; a
\* single TextDocumentEdit applied through document_changes leaves its file
\* with that same function of the old content and the edits.
C12_ChangesUnvalidated ==
    /\ C12_Pre =>
        /\ outcome = Response(req.id, TRUE, None)
        /\ \A k \in 1..Len(req.edit.changes) :
            LET path == from_uri(req.edit.changes[k].uri)
            IN  /\ path \in DOMAIN files
                /\ files[path] = apply_text_edits(start.files[path], req.edit.changes[k].edits)
    /\ SingleEditApplied =>
        LET e == req.edit.document_changes[1]
        IN  files[from_uri(e.uri)] = apply_text_edits(start.files[from_uri(e.uri)], e.edits)

\* a changes map for one file: applied where the store held the content of
\* another revision at version 1
C12_Witness ==
    /\ C12_Pre
    /\ Len(req.edit.changes) = 1
    /\ IsRegistered(start.document_state, req.edit.changes[1].uri)
    /\ start.document_state[req.edit.changes[1].uri].version = 1
    /\ start.document_state[req.edit.changes[1].uri].content
           # start.files[from_uri(req.edit.changes[1].uri)]
    /\ files[from_uri(req.edit.changes[1].uri)] = NewText

ResourceKinds == {"CreateFile", "RenameFile", "DeleteFile"}

\* apply stopped at entry idx, which is a resource operation
C14_Pre == FailedAtEntry /\ Work(req.edit)[idx].kind \in ResourceKinds

\* C14: a resource operation is never silently dropped: apply never goes past
\* a CreateFile, RenameFile or DeleteFile entry; when it reaches one the
\* response is applied = false with a reason that names the operation, and
\* the entry calls no collaborator and changes neither files nor store.
C14_UnsupportedSurfaced ==
    /\ (Responded /\ Mode(req.edit) = "document_changes") =>
           \A k \in 1..Len(Work(req.edit)) :
               k < idx => Work(req.edit)[k].kind \notin ResourceKinds
    /\ C14_Pre =>
        /\ outcome = Response(req.id, FALSE,
                               <<"not yet supported", Work(req.edit)[idx].kind>>)
        /\ Untouched(idx)
        /\ files = pre.files
        /\ document_state = pre.document_state

\* a RenameFile reached after a TextDocumentEdit that changed its file
C14_Witness ==
    /\ C14_Pre
    /\ idx = 2
    /\ Work(req.edit)[idx].kind = "RenameFile"
    /\ files # start.files
    /\ from_uri(Work(req.edit)[idx].uri) \in DOMAIN files

\* the entries whose edited text reached the file: write_file returned for
\* them and the store update was called
WrittenEntries == { io_log[i].entry : i \in { j \in 1..Len(io_log) : io_log[j].op = "update_content" } }

\* the uris of the written entries
WrittenURIs == { Work(req.edit)[k].uri : k \in WrittenEntries }

VersionsKept ==
    \A u \in DOMAIN document_state \cap DOMAIN document_state' :
        get_version(document_state', u) >= get_version(document_state, u)

\* C23: version monotonicity: over any sequence of store operations and
\* workspace-edit applications the stored version of a uri never decreases
\* from the step that registers it to the step that unregisters it; a step
\* that fails leaves it equal.
C23_VersionMonotonic == [][VersionsKept]_vars

\* a batch has raised the version of an open document by one entry and has
\* then failed at a later entry
C23_Witness ==
    /\ Responded
    /\ outcome.kind = "response"
    /\ ~outcome.applied
    /\ \E u \in DOMAIN document_state \cap DOMAIN start.document_state :
           get_version(document_state, u) = get_version(start.document_state, u) + 1

----------------------------------------------------------------------------
(* Claims about successive requests, checked under SpecChain *)

\* the last n requests handled
LastHandled(n) == SubSeq(history, Len(history) - n + 1, Len(history))

\* the content after the first k edits of the chain h
RECURSIVE ChainContent(_, _)
ChainContent(h, k) ==
    IF k = 0 THEN h[1].before
    ELSE apply_text_edits(ChainContent(h, k - 1), h[k].edits)

\* C13: after n successive requests on one registered uri, each carrying the
\* version stored when it is handled, all n are applied, the stored version is
\* the initial version plus n and the stored content is the content after the
\* n-th edit (which is the content of the file).
C13_VersionChaining ==
    pc = "idle" =>
        \A n \in 1..Len(history) :
            LET h == LastHandled(n)
            IN  IsChain(h) =>
                    /\ \A i \in 1..n : h[i].applied
                    /\ IsRegistered(document_state, h[1].uri)
                    /\ get_version(document_state, h[1].uri) = h[1].stored + n
                    /\ get_content(document_state, h[1].uri) = ChainContent(h, n)
                    /\ files[from_uri(h[1].uri)] = ChainContent(h, n)

\* two chained requests from version 0, the first of which changed the file
C13_Witness ==
    /\ pc = "idle"
    /\ Len(history) >= 2
    /\ IsChain(LastHandled(2))
    /\ LastHandled(2)[1].stored = 0
    /\ LastHandled(2)[1].before = OldText
    /\ files[from_uri(LastHandled(2)[1].uri)] = NewText

----------------------------------------------------------------------------
(* Claims about resource operations, checked under SpecResource *)

\* the request was one resource operation of the kind
SingleOperation(kind) ==
    /\ Responded
    /\ Len(req.edit.document_changes) = 1
    /\ req.edit.document_changes[1].kind = kind

\* the response is applied = true
Applied == outcome = Response(req.id, TRUE, None)

\* the response is applied = false with a reason of the kind
FailedWith(reason) ==
    /\ outcome.kind = "response"
    /\ ~outcome.applied
    /\ outcome.failure_reason[1] = reason

ExistedAtStart(uri) == from_uri(uri) \in DOMAIN start.files

\* C15: CreateFile on a target that exists: with overwrite the file is
\* recreated empty and apply succeeds; otherwise with ignore_if_exists apply
\* succeeds and the content is untouched; with neither flag apply fails with
\* an already-exists reason and the content is untouched.
C15_CreateOnExisting ==
    (SingleOperation("CreateFile") /\ ExistedAtStart(req.edit.document_changes[1].uri)) =>
        LET e == req.edit.document_changes[1]
        IN  /\ e.overwrite =>
                /\ Applied
                /\ from_uri(e.uri) \in DOMAIN files
                /\ files[from_uri(e.uri)] = <<>>
            /\ (~e.overwrite /\ e.ignore_if_exists) =>
                /\ Applied
                /\ SameFile(files, start.files, e.uri)
            /\ (~e.overwrite /\ ~e.ignore_if_exists) =>
                /\ FailedWith("AlreadyExists")
                /\ SameFile(files, start.files, e.uri)

\* C16: RenameFile fails with a source-not-found reason when the source does
\* not exist, and with an already-exists reason when the target exists and
\* neither overwrite nor ignore_if_exists is set; in both failures source
\* file, target file and store are unchanged.
C16_RenameFailures ==
    SingleOperation("RenameFile") =>
        LET e == req.edit.document_changes[1]
        IN  /\ ~ExistedAtStart(e.uri) =>
                /\ FailedWith("SourceNotFound")
                /\ files = start.files
                /\ document_state = start.document_state
            /\ (/\ ExistedAtStart(e.uri)
                /\ ExistedAtStart(e.new_uri)
                /\ ~e.overwrite
                /\ ~e.ignore_if_exists) =>
                /\ FailedWith("AlreadyExists")
                /\ files = start.files
                /\ document_state = start.document_state

\* C17: a RenameFile that can succeed (the source exists, the target does
\* not) from a registered old uri succeeds, moves the DocumentState of the old
\* uri to the new one with the same version and content, removes the old uri
\* from the store, and the file content is at the new path and no longer at
\* the old one.
C17_RenameMovesState ==
    (/\ SingleOperation("RenameFile")
     /\ ExistedAtStart(req.edit.document_changes[1].uri)
     /\ ~ExistedAtStart(req.edit.document_changes[1].new_uri)
     /\ IsRegistered(start.document_state, req.edit.document_changes[1].uri)
     /\ ~IsRegistered(start.document_state, req.edit.document_changes[1].new_uri)) =>
        LET e == req.edit.document_changes[1]
        IN  /\ Applied
            /\ IsRegistered(document_state, e.new_uri)
            /\ document_state[e.new_uri] = start.document_state[e.uri]
            /\ ~IsRegistered(document_state, e.uri)
            /\ from_uri(e.new_uri) \in DOMAIN files
            /\ files[from_uri(e.new_uri)] = start.files[from_uri(e.uri)]
            /\ from_uri(e.uri) \notin DOMAIN files

\* C18: DeleteFile on an existing file removes it and removes the store entry
\* of its uri; DeleteFile on a missing target without ignore_if_not_exists
\* fails with a target-not-found reason and changes nothing.
C18_DeleteFile ==
    SingleOperation("DeleteFile") =>
        LET e == req.edit.document_changes[1]
        IN  /\ ExistedAtStart(e.uri) =>
                /\ Applied
                /\ from_uri(e.uri) \notin DOMAIN files
                /\ ~IsRegistered(document_state, e.uri)
            /\ (~ExistedAtStart(e.uri) /\ ~e.ignore_if_not_exists) =>
                /\ FailedWith("TargetNotFound")
                /\ files = start.files
                /\ document_state = start.document_state

\* the request is [TextDocumentEdit of registered U at its version, RenameFile
\* U to V, CreateFile W], with U on disk, V neither on disk nor registered
C19_Pre ==
    /\ Responded
    /\ Len(req.edit.document_changes) = 3
    /\ LET e == req.edit.document_changes[1]
           r == req.edit.document_changes[2]
       IN  /\ req.edit.document_changes = MixedBatch(e.uri, e.version, r.new_uri)
           /\ ExistedAtStart(e.uri)
           /\ IsRegistered(start.document_state, e.uri)
           /\ get_version(start.document_state, e.uri) = e.version
           /\ ~ExistedAtStart(r.new_uri)
           /\ ~IsRegistered(start.document_state, r.new_uri)
    /\ ~IsOSErrorOrValueError(raised)

\* C19: the mixed batch is applied in order and reports applied = true: the
\* file at V holds the edited content, no file is at U, a file is at W, U is
\* not registered and V is registered with version v + 1.
C19_MixedBatch ==
    C19_Pre =>
        LET e == req.edit.document_changes[1]
            r == req.edit.document_changes[2]
        IN  /\ Applied
            /\ from_uri(r.new_uri) \in DOMAIN files
            /\ files[from_uri(r.new_uri)]
                   = apply_text_edits(start.files[from_uri(e.uri)], e.edits)
            /\ from_uri(e.uri) \notin DOMAIN files
            /\ from_uri(NewURI) \in DOMAIN files
            /\ ~IsRegistered(document_state, e.uri)
            /\ IsRegistered(document_state, r.new_uri)
            /\ get_version(document_state, r.new_uri) = e.version + 1

----------------------------------------------------------------------------
(* Claims about the DocumentStateManager, checked under SpecStore *)

\* register was called on a uri that was registered
C20_RegisteredTwice ==
    store_call.op = "register" /\ IsRegistered(store_call.before, store_call.uri)

\* register was called on a uri right after unregister returned for it
C20_AfterUnregister ==
    /\ store_call.op = "register"
    /\ store_call.prev = [op |-> "unregister", uri |-> store_call.uri, ok |-> TRUE]

\* C20: register on a uri that is already registered fails with an
\* already-registered error and leaves the content and the version of that
\* uri (and the rest of the store) unchanged; register on a uri whose
\* unregister came in between succeeds and stores the new content and version.
C20_RegisterTwice ==
    /\ C20_RegisteredTwice =>
        /\ store_call.raised = AlreadyRegistered(store_call.uri)
        /\ document_state = store_call.before
    /\ C20_AfterUnregister =>
        /\ store_call.raised = NoException
        /\ IsRegistered(document_state, store_call.uri)
        /\ document_state[store_call.uri]
               = DocumentState(store_call.content, store_call.version)

\* the second register carried another content and another version than the
\* entry it met
C20_Witness ==
    /\ C20_RegisteredTwice
    /\ store_call.content # store_call.before[store_call.uri].content
    /\ store_call.version # store_call.before[store_call.uri].version

\* a method other than register was called on a uri that was not registered
C21_Pre ==
    /\ store_call.op \in {"get_version", "get_content", "update_content",
                          "increment_version", "unregister"}
    /\ ~IsRegistered(store_call.before, store_call.uri)

\* C21: on a uri that is not registered, get_version, get_content,
\* update_content, increment_version and unregister each fail with the
\* not-found error of that uri and leave the store as it was (update_content
\* creates no entry).
C21_NotFound ==
    C21_Pre =>
        /\ store_call.raised = NotFound(store_call.uri)
        /\ store_call.returned = None
        /\ document_state = store_call.before
        /\ ~IsRegistered(document_state, store_call.uri)

\* update_content on an absent uri while the other document is open
C21_Witness ==
    /\ C21_Pre
    /\ store_call.op = "update_content"
    /\ store_call.before # <<>>

\* update_content or increment_version was called on a registered uri
C22_Pre ==
    /\ store_call.op \in {"update_content", "increment_version"}
    /\ IsRegistered(store_call.before, store_call.uri)

\* C22: on a registered uri update_content(uri, c) sets the content to c,
\* raises the version by exactly 1 and returns the new version;
\* increment_version(uri) raises the version by exactly 1, returns the new
\* version and leaves the content unchanged.
C22_UpdateAndIncrement ==
    C22_Pre =>
        LET old == store_call.before[store_call.uri]
        IN  /\ store_call.raised = NoException
            /\ IsRegistered(document_state, store_call.uri)
            /\ get_version(document_state, store_call.uri) = old.version + 1
            /\ store_call.returned = <<old.version + 1>>
            /\ get_content(document_state, store_call.uri) =
                   IF store_call.op = "update_content" THEN store_call.content
                   ELSE old.content

\* increment_version from version 1 on a document whose content is the edited
\* text
C22_Witness ==
    /\ C22_Pre
    /\ store_call.op = "increment_version"
    /\ store_call.before[store_call.uri] = DocumentState(NewText, 1)

\* a method that changes the store was called
C24_Pre ==
    store_call.op \in {"register", "unregister", "update_content", "increment_version"}

\* C24: register, unregister, update_content and increment_version on one uri
\* leave the entry (content and version) of every other uri as it was,
\* whether the call returns or raises.
C24_PerURI ==
    C24_Pre =>
        \A u \in URIs \ {store_call.uri} :
            SameEntry(document_state, store_call.before, u)

\* unregister removed one document while the other one was open
C24_Witness ==
    /\ C24_Pre
    /\ store_call.op = "unregister"
    /\ store_call.raised = NoException
    /\ DOMAIN store_call.before = URIs
    /\ DOMAIN document_state = URIs \ {store_call.uri}

----------------------------------------------------------------------------
(* Claims about open_files, checked under SpecOpen *)

\* the active contexts that name uri
Holders(uri) ==
    { c \in Contexts : open_contexts[c].status = "active" /\ uri \in open_contexts[c].uris }

----------------------------------------------------------------------------
(* Claims about the file operations, checked under SpecFileOps *)

\* the positions of the log at which the step called name was made
StepsAt(name) == { k \in 1..Len(fo.log) : fo.log[k].step = name }

\* the place of a step in the fixed order
Rank(e) ==
    IF e.step = "will" THEN 1
    ELSE IF e.step = "apply" THEN 2
    ELSE IF e.step = "fs" THEN 3
    ELSE 4

\* the steps made so far are in the order will*, apply, file system, did*:
\* each of will*, apply and did* at most once, apply only after will*, the
\* file-system steps on the list items in list order, did* only after the
\* file-system step on every item
FoOrdered ==
    /\ \A j, k \in 1..Len(fo.log) : j < k => Rank(fo.log[j]) <= Rank(fo.log[k])
    /\ \A name \in {"will", "apply", "did"} : Cardinality(StepsAt(name)) <= 1
    /\ StepsAt("apply") # {} => StepsAt("will") # {}
    /\ \A j, k \in StepsAt("fs") : j < k => fo.log[j].item < fo.log[k].item
    /\ { fo.log[k].item : k \in StepsAt("fs") } = 1..Cardinality(StepsAt("fs"))
    /\ StepsAt("did") # {} => Cardinality(StepsAt("fs")) = Len(fo.args)

\* a call that returned made every step its client and the server's answer
\* call for
FoComplete ==
    (fo.pc = "done" /\ fo.raised = NoException) =>
        /\ fo.can_will <=> StepsAt("will") # {}
        /\ fo.edit # <<>> <=> StepsAt("apply") # {}
        /\ Cardinality(StepsAt("fs")) = Len(fo.args)
        /\ fo.can_did <=> StepsAt("did") # {}

\* a file-system step of create leaves every existing file as it is
CreateKeeps ==
    (/\ fo'.op = "create"
     /\ Len(fo'.log) > Len(fo.log)
     /\ fo'.log[Len(fo'.log)].step = "fs") =>
        \A q \in DOMAIN files : q \in DOMAIN files' /\ files'[q] = files[q]

\* C27: create_files_with_server, rename_files_with_server and
\* delete_files_with_server make their steps in a fixed order: the will*
\* request first, then the application of the edit it returned (if any), then
\* the file-system operation on every listed item, and the did* notification
\* last, after all file-system operations; create never overwrites a file
\* that exists.
C27_FixedOrder == [][FoOrdered' /\ FoComplete' /\ CreateKeeps]_vars

\* a create call on an existing and a missing file went through its four
\* steps: the existing file kept its text, the missing one is empty
C27_Witness ==
    /\ fo.op = "create"
    /\ fo.pc = "done"
    /\ fo.raised = NoException
    /\ Len(fo.args) = 2
    /\ Len(fo.log) = 5
    /\ files[from_uri(fo.args[1])] # <<>>
    /\ files[from_uri(fo.args[2])] = <<>>

----------------------------------------------------------------------------
(* Claims about one edit of apply_text_edits, checked under SpecOneEdit *)

\* apply_text_edits has returned from a call with a single edit
OneEditDone == te_pc = "done" /\ Len(edits) = 1

\* the text of the 0-based lines a .. b - 1 of content
LinesText(a, b) == Join(SubSeq(SplitLines(content), a + 1, b))

NumLines == Len(SplitLines(content))

\* the single edit starts and ends on one line of the document
C28_Pre ==
    /\ OneEditDone
    /\ edits[1].range.start.line = edits[1].range.end.line
    /\ edits[1].range.start.line < NumLines

\* C28: for an edit with start.line = end.line inside the document the
\* output is the input with that one line replaced by
\* line[:start.char] + new_text + line[end.char:]; with start = end that is
\* an insertion, with empty new_text a deletion of the range.
C28_SingleLine ==
    C28_Pre =>
        LET r    == edits[1].range
            line == SplitLines(content)[r.start.line + 1]
        IN  result = LinesText(0, r.start.line)
                         \o Take(line, r.start.character)
                         \o _get_edit_text(edits[1])
                         \o Drop(line, r.end.character)
                         \o LinesText(r.start.line + 1, NumLines)

\* a replacement inside the second of three lines
C28_Witness ==
    /\ C28_Pre
    /\ edits[1].range.start.line = 1
    /\ NumLines = 3
    /\ edits[1].range.start.character < edits[1].range.end.character
    /\ edits[1].range.end.character < Len(SplitLines(content)[2])
    /\ _get_edit_text(edits[1]) # <<>>
    /\ result # content

\* the single edit starts on one line of the document and ends on a later one
C29_Pre ==
    /\ OneEditDone
    /\ edits[1].range.start.line < edits[1].range.end.line
    /\ edits[1].range.end.line < NumLines

\* C29: for an edit with start.line < end.line, both inside the document, the
\* output is the lines before start.line, then the one line
\* firstLine[:start.char] + new_text + lastLine[end.char:], then the lines
\* after end.line; the lines start.line + 1 .. end.line are gone.
C29_MultiLineCollapse ==
    C29_Pre =>
        LET r     == edits[1].range
            first == SplitLines(content)[r.start.line + 1]
            last  == SplitLines(content)[r.end.line + 1]
        IN  result = LinesText(0, r.start.line)
                         \o Take(first, r.start.character)
                         \o _get_edit_text(edits[1])
                         \o Drop(last, r.end.character)
                         \o LinesText(r.end.line + 1, NumLines)

\* a replacement from inside the first line to inside the second, with a
\* third line after it
C29_Witness ==
    /\ C29_Pre
    /\ NumLines = 3
    /\ edits[1].range.start.character = 1
    /\ edits[1].range.end.character = 1
    /\ Len(SplitLines(content)[2]) = 2
    /\ _get_edit_text(edits[1]) # <<>>

\* C30: for an edit with start.line inside the document and end.line >= the
\* number of lines, the start line becomes firstLine[:start.char] + new_text
\* and every line after it is removed: the output is the text before the
\* start position followed by new_text.
C30_EndPastEof ==
    (/\ OneEditDone
     /\ edits[1].range.start.line < NumLines
     /\ edits[1].range.end.line >= NumLines) =>
        LET r     == edits[1].range
            first == SplitLines(content)[r.start.line + 1]
        IN  result = LinesText(0, r.start.line)
                         \o Take(first, r.start.character)
                         \o _get_edit_text(edits[1])

\* k lines holding a line feed only, as text
RECURSIVE Newlines(_)
Newlines(k) == IF k <= 0 THEN <<>> ELSE <<"\n">> \o Newlines(k - 1)

\* the single edit starts on a line number past the last line
C31_Pre ==
    /\ OneEditDone
    /\ edits[1].range.start.line >= NumLines

\* C31: for an edit with start.line >= the number of lines n, the output is
\* the original content, unchanged, then start.line - n lines holding only a
\* line feed, then new_text as the line at index start.line; start.character
\* and the end position play no part.
C31_StartPastEof ==
    C31_Pre =>
        result = content
                     \o Newlines(edits[1].range.start.line - NumLines)
                     \o _get_edit_text(edits[1])

\* an edit on line 1 of the empty document, at a character past 0: one line
\* is padded before the new text
C31_Witness ==
    /\ C31_Pre
    /\ NumLines = 0
    /\ edits[1].range.start.line = 1
    /\ edits[1].range.start.character > 0
    /\ edits[1].range.end.line > 1
    /\ _get_edit_text(edits[1]) # <<>>
    /\ result = <<"\n">> \o _get_edit_text(edits[1])

----------------------------------------------------------------------------
(* Claims about the order within one batch, checked under Spec *)

\* the place of a collaborator call within its entry
OpRank(c) ==
    IF c.op = "read_file" THEN 1
    ELSE IF c.op = "write_file" THEN 2
    ELSE 3

IsWrite(c) == c.op = "write_file"

\* C32: the entries of one document_changes batch are applied one after the
\* other in list order: the calls of an entry come as read, write, store
\* update, no call of entry i + 1 is made before the store update of entry i,
\* and the k-th file write of the request is the write of the k-th entry of
\* the list.
C32_ListOrder ==
    Mode(req.edit) = "document_changes" =>
        LET dc     == req.edit.document_changes
            writes == SelectSeq(io_log, IsWrite)
        IN  /\ \A i, j \in 1..Len(io_log) :
                   i < j =>
                       \/ io_log[i].entry < io_log[j].entry
                       \/ /\ io_log[i].entry = io_log[j].entry
                          /\ OpRank(io_log[i]) < OpRank(io_log[j])
            /\ \A i \in 1..Len(io_log) :
                   io_log[i].entry > 1 =>
                       \E j \in 1..(i - 1) :
                           io_log[j] = Call(io_log[i].entry - 1, "update_content",
                                            dc[io_log[i].entry - 1].uri)
            /\ \A k \in 1..Len(writes) :
                   /\ writes[k].entry = k
                   /\ writes[k].target = dc[k].uri

\* a batch of two text document edits on different documents was applied
\* whole: two reads, two writes, two store updates
C32_Witness ==
    /\ Responded
    /\ outcome.kind = "response"
    /\ outcome.applied
    /\ Mode(req.edit) = "document_changes"
    /\ Len(req.edit.document_changes) = 2
    /\ req.edit.document_changes[1].uri # req.edit.document_changes[2].uri
    /\ Len(io_log) = 6

\* the first two entries of the batch are text document edits for one uri,
\* registered when the request arrived, both carrying the version stored
\* then, and the first of them was written and recorded in the store
C33_Pre ==
    /\ Responded
    /\ Mode(req.edit) = "document_changes"
    /\ Len(req.edit.document_changes) >= 2
    /\ LET first  == req.edit.document_changes[1]
           second == req.edit.document_changes[2]
       IN  /\ first.kind = "TextDocumentEdit"
           /\ second.kind = "TextDocumentEdit"
           /\ first.uri = second.uri
           /\ IsRegistered(start.document_state, first.uri)
           /\ first.version = get_version(start.document_state, first.uri)
           /\ second.version = first.version
           /\ \E i \in 1..Len(io_log) :
                  io_log[i] = Call(1, "update_content", first.uri)

\* C33: the version check of an entry sees the bump made by the entries
\* before it: of two TextDocumentEdits for the same registered uri that both
\* carry the version v stored at the start of the batch, the first is applied
\* (the version becomes v + 1) and the second fails with a version mismatch
\* (expected v, actual v + 1); apply returns (false, reason), and the first
\* edit stays in the file and in the store.
C33_BumpSeen ==
    C33_Pre =>
        LET first == req.edit.document_changes[1]
            u     == first.uri
            v     == first.version
            new   == apply_text_edits(start.files[from_uri(u)], first.edits)
        IN  /\ idx = 2
            /\ outcome = Response(req.id, FALSE, <<"Version mismatch", u, v, v + 1>>)
            /\ files[from_uri(u)] = new
            /\ document_state[u] = DocumentState(new, v + 1)
            /\ Untouched(2)

\* such a batch was handled, and the first edit changed the file
C33_Witness ==
    /\ C33_Pre
    /\ idx = 2
    /\ files[from_uri(req.edit.document_changes[1].uri)]
           # start.files[from_uri(req.edit.document_changes[1].uri)]
    /\ get_version(document_state, req.edit.document_changes[1].uri) = 1

----------------------------------------------------------------------------
(* Claims about requests handled at the same time, checked under             *)
(* SpecConcurrent                                                            *)

\* the tasks whose request was answered applied = true
AppliedTasks ==
    { t \in Tasks : tasks[t].outcome.kind = "response" /\ tasks[t].outcome.applied }

\* both tasks have ended; their edits are for one uri, registered and on disk
\* when the requests arrived, and both carry the version stored then
C34_Pre ==
    /\ \A t \in Tasks : tasks[t].pc = "done"
    /\ \E u \in DOMAIN start.document_state :
           /\ from_uri(u) \in DOMAIN start.files
           /\ \A t \in Tasks :
                  /\ tasks[t].edit[1].uri = u
                  /\ tasks[t].edit[1].version = get_version(start.document_state, u)

\* C34: two apply calls that carry the same expected version v for one
\* registered uri and run at the same time end as some serial execution of
\* the two does: exactly one passes the version check and is applied, the
\* other fails with a version mismatch, the stored version ends at v + 1, and
\* the file and the stored content are the applied edit's result.
C34_Serialised ==
    C34_Pre =>
        \E t \in Tasks :
            LET e     == tasks[t].edit[1]
                v     == e.version
                new   == apply_text_edits(start.files[from_uri(e.uri)], e.edits)
            IN  /\ AppliedTasks = {t}
                /\ \A o \in Tasks \ {t} :
                       tasks[o].outcome =
                           Response(o, FALSE, <<"Version mismatch", e.uri, v, v + 1>>)
                /\ document_state[e.uri] = DocumentState(new, v + 1)
                /\ files[from_uri(e.uri)] = new

----------------------------------------------------------------------------
(* Claims about the changes path, checked under Spec *)

\* a request in the changes form has been answered
C35_Pre == Responded /\ Mode(req.edit) = "changes"

\* C35: in the changes path the store follows the file only for tracked
\* documents: for a registered uri the stored content becomes the new file
\* content and the version rises by exactly 1; for an unregistered uri the
\* file is rewritten all the same, no store entry is created, and the apply
\* succeeds (only a file that cannot be read or written makes it fail).
C35_ChangesStore ==
    C35_Pre =>
        /\ \A k \in WrittenEntries :
               LET u   == req.edit.changes[k].uri
                   new == apply_text_edits(start.files[from_uri(u)],
                                           req.edit.changes[k].edits)
               IN  /\ files[from_uri(u)] = new
                   /\ IF IsRegistered(start.document_state, u)
                      THEN document_state[u] =
                               DocumentState(new, get_version(start.document_state, u) + 1)
                      ELSE ~IsRegistered(document_state, u)
        /\ WrittenEntries = 1..Len(req.edit.changes) =>
               outcome = Response(req.id, TRUE, None)
        /\ outcome # Response(req.id, TRUE, None) =>
               /\ outcome.kind = "response"
               /\ raised.type \in {"FileNotFoundError", "PermissionError"}

\* a changes map naming a registered and an unregistered document was
\* applied: both files are rewritten, one store entry follows
C35_Witness ==
    /\ C35_Pre
    /\ Len(req.edit.changes) = 2
    /\ WrittenEntries = {1, 2}
    /\ \E k \in {1, 2} :
           /\ IsRegistered(start.document_state, req.edit.changes[k].uri)
           /\ ~IsRegistered(start.document_state, req.edit.changes[3 - k].uri)
           /\ files[from_uri(req.edit.changes[3 - k].uri)]
                  # start.files[from_uri(req.edit.changes[3 - k].uri)]
    /\ outcome.applied

----------------------------------------------------------------------------
(* Claims about the server candidates, checked under SpecCandidates *)

\* s is an initial segment of t
IsPrefix(s, t) == Len(s) <= Len(t) /\ SubSeq(t, 1, Len(s)) = s

\* the priority order for the requested server, with the local server
\* available or not
Priority(server, available) ==
    <<server>> \o (IF available THEN <<"local">> ELSE <<>>) \o <<"container", "local">>

\* C36: iter_candidate yields the requested server first (the given instance,
\* or local/container by name), then the local server only if its
\* availability check raised no ServerRuntimeError, then the container
\* server, then the local server: 3 or 4 servers in all, the last two being
\* container and local.
C36_CandidateOrder ==
    /\ cand.available = "unknown" => Len(cand.yielded) <= 1
    /\ cand.available # "unknown" =>
           IsPrefix(cand.yielded, Priority(cand.server, cand.available = "yes"))
    /\ Len(cand.yielded) >= 1 => cand.yielded[1] = cand.server
    /\ cand.pc = "done" =>
           /\ cand.yielded = Priority(cand.server, cand.available = "yes")
           /\ Len(cand.yielded) \in {3, 4}
           /\ SubSeq(cand.yielded, Len(cand.yielded) - 1, Len(cand.yielded))
                  = <<"container", "local">>

\* the container server was asked for and the local server is not available:
\* the generator returned after three servers
C36_Witness ==
    /\ cand.pc = "done"
    /\ cand.server = "container"
    /\ cand.available = "no"
    /\ cand.yielded = <<"container", "container", "local">>

----------------------------------------------------------------------------
(* Claims about Server._dispatch, checked under SpecDispatch and             *)
(* SpecDispatchFair                                                          *)

\* the shape of a package by its keys: an id with a result or an error; an
\* id with a method and neither of those; a method and no id
KeyShape(p) ==
    IF p.id # "none" /\ (p.result \/ p.error) THEN "response"
    ELSE IF p.id # "none" /\ p.method THEN "request"
    ELSE IF p.id = "none" /\ p.method THEN "notification"
    ELSE "other"

\* the handle tasks that have run their match statement
HandledTasks == { k \in 1..Len(srv.handles) : srv.handles[k].pc # "start" }

\* how many times package p stands in the sequence q
Count(q, p) == Cardinality({ j \in 1..Len(q) : q[j] = p })

\* the handled packages of the shapes that are forwarded
ForwardedTasks ==
    { k \in HandledTasks : KeyShape(srv.handles[k].package) \in {"request", "notification"} }

\* C37: _dispatch routes a package by its shape. One with an id and a result
\* or an error goes to the response table and is never forwarded to the
\* client; one with an id and a method is forwarded, and one response for it
\* is sent to the server once the client has answered, none before and no
\* second one; one with a method only is forwarded and gets no reply. Without
\* a sender nothing is forwarded: a notification is dropped and a server
\* request raises an error.
C37_Routing ==
    /\ \A k \in HandledTasks :
           LET p  == srv.handles[k].package
               at == srv.handles[k].pc
           IN  /\ KeyShape(p) = "response" =>
                      /\ p \in srv.resp_table
                      /\ Count(srv.to_client, p) = 0
                      /\ at = "done"
               /\ (KeyShape(p) = "request" /\ srv.has_sender) =>
                      /\ Count(srv.to_client, p) = 1
                      /\ Count(srv.to_server, ResponsePackage(p.id))
                             = IF at = "done" THEN 1 ELSE 0
               /\ (KeyShape(p) = "request" /\ ~srv.has_sender) =>
                      /\ at = "raised"
                      /\ srv.failed
               /\ KeyShape(p) = "notification" =>
                      /\ at = "done"
                      /\ Count(srv.to_server, ResponsePackage(p.id)) = 0
               /\ KeyShape(p) = "other" => at = "done"
    /\ Len(srv.to_client) = IF srv.has_sender THEN Cardinality(ForwardedTasks) ELSE 0
    /\ \A j \in 1..Len(srv.to_client) :
           KeyShape(srv.to_client[j]) \in {"request", "notification"}
    /\ \A p \in srv.resp_table : KeyShape(p) = "response"
    /\ srv.failed <=> \E k \in HandledTasks : srv.handles[k].pc = "raised"

\* with a sender: a server request was forwarded and answered, and the
\* response to the client's own request, which carried a method key too,
\* went to the response table
C37_Witness ==
    /\ srv.has_sender
    /\ \E i \in ServerIds :
           /\ Count(srv.to_client, RequestPackage(i)) = 1
           /\ Count(srv.to_server, ResponsePackage(i)) = 1
           /\ Package(ClientId(i), TRUE, TRUE, FALSE) \in srv.resp_table
    /\ \A k \in 1..Len(srv.handles) : srv.handles[k].pc = "done"

\* the response to server request i has been sent to the server
Replied(i) == Count(srv.to_server, ResponsePackage(i)) > 0

\* C38: dispatch does not block on a pending server request: a handler that
\* has been handed a server request, and that may send a client request and
\* wait for its response, is eventually answered, and the response to the
\* server request is then sent.
C38_NoDeadlock ==
    \A i \in ServerIds : (srv.client[i] \in {"pending", "asked"}) ~> Replied(i)

\* a handler sent its own request while its server request was pending, the
\* answer was routed to the response table, and the response to the server
\* request was sent after it
C38_Witness ==
    \E i \in ServerIds :
        /\ Count(srv.to_server, RequestPackage(ClientId(i))) = 1
        /\ ResponsePackage(ClientId(i)) \in srv.resp_table
        /\ Replied(i)
        /\ srv.to_server[Len(srv.to_server)] = ResponsePackage(i)

====
